---- MODULE Spec2Model ----
(***************************************************************************)
(* A model of the dbgroup benchmark harness:                               *)
(*   - SimpleDDSketch (src/src/component/measurements.cpp),                *)
(*   - Worker (src/include/dbgroup/benchmark/component/worker.hpp),        *)
(*   - Benchmarker::Run / RunWorker                                        *)
(*     (src/include/dbgroup/benchmark/validator.hpp, second half).         *)
(*                                                                         *)
(* Spec       : one Benchmarker::Run with its detached worker threads.     *)
(* FairSpec   : Spec with weak fairness on the controller and the workers. *)
(* SketchSpec : free sequences of Add and operator+= on two sketches.      *)
(* ApiSpec    : free calls of Add, operator+=, Worker::MoveSketch and      *)
(*              Benchmarker::LogThroughput on sketches of any shape.       *)
(* MeasureSpec: one Run with one worker, for every configuration a Builder *)
(*              can build, every return value of Target::Execute and every *)
(*              reading of the stopwatch.                                  *)
(* SeedSpec   : Spec for every random seed of the model.                   *)
(* FaultSpec  : Spec with a Target whose functions can throw.              *)
(* ValidateSpec: calls of ValidateStr2UInt on short strings.               *)
(* RepeatSpec : Spec with further calls of Run on the same Benchmarker.    *)
(* CvSpec     : the earlier runner with a mutex and a condition variable   *)
(*              (src/unnamed/part_010), with fairness.                     *)
(* SmSpec     : the fixed-count runner with s_mtx_, x_mtx_ and cond_       *)
(*              (src/include/benchmark/benchmarker.hpp), with fairness.    *)
(* TmSpec     : the fixed-count runner with mutex_1st_ and mutex_2nd_      *)
(*              (src/include/component/stopwatch.hpp).                     *)
(* SplitSpec  : the split of total_exec_num_ over the workers.             *)
(***************************************************************************)
EXTENDS Integers, Sequences, FiniteSets, Bags, TLC

(***************************************************************************)
(* Bounds of the model.                                                    *)
(***************************************************************************)
\* the largest thread_num_ a Run is started with
MaxThreads == 2
\* the largest number of operations an operation iterator yields
MaxOps == 2
\* the largest value Target::Execute returns
MaxCnt == 2
\* the number of Add / operator+= calls in a behaviour of SketchSpec
MaxSteps == 3
\* the number of calls in a behaviour of ApiSpec
MaxCalls == 2
\* the longest string ValidateStr2UInt is called with, a few long ones aside
MaxStrLen == 3
\* the calls of Run on one Benchmarker
MaxRuns == 2
\* the small values of total_exec_num_
MaxTotal == 7

(***************************************************************************)
(* Program constants.                                                      *)
(***************************************************************************)
\* OperationEngine::OPType::kTotalNum (kRead = 0, kWrite = 1)
kTotalNum == 2
\* SimpleDDSketch::kBinNum
kBinNum == 2048
\* ~0UL, the initial value of min_; scaled to the largest integer TLC holds
kMaxUInt == 2147483647
\* denom_ = std::log(kGamma) = 0.0200006667..., in units of 1e-6
DenomMicro == 20001
\* static_cast<size_t>(2 * std::pow(kGamma, kBinNum - 1) / (kGamma + 1))
\* = 597370795026357376, on the scale of kMaxUInt (divided by 2^33)
kLastBinValue == 69543112

\* the operation types of the engine
Kinds == 0 .. (kTotalNum - 1)
\* the stopwatch readings [ns] the model draws from: 0 and 1 fall into bin 0,
\* 3 and 100 into two further bins
Lats == {0, 1, 3, 100}
\* the values Target::Execute returns
Cnts == 1 .. MaxCnt

(***************************************************************************)
(* SimpleDDSketch                                                          *)
(***************************************************************************)
\* std::log(lat) in units of 1e-6, for the latencies of the model
LnMicro(lat) ==
  CASE lat = 1 -> 0
    [] lat = 2 -> 693147
    [] lat = 3 -> 1098612
    [] lat = 100 -> 4605170
    [] lat = 101 -> 4615121
    [] lat = kMaxUInt -> 44361420

\* a + b on size_t: the sum wraps around past ~0UL
PlusU(a, b) == IF b > kMaxUInt - a THEN a - (kMaxUInt - b) - 1 ELSE a + b

\* std::ceil(a / b) for a >= 0, b > 0
Ceil(a, b) == (a + b - 1) \div b

\* pos in SimpleDDSketch::Add
BinPos(lat) == IF lat = 0 THEN 0 ELSE Ceil(LnMicro(lat), DenomMicro)

\* static_cast<size_t>(2 * std::pow(kGamma, i) / (kGamma + 1)) for the bins
\* the latencies of the model fall into, for bin 170 = 2218 - kBinNum, which
\* an out-of-range write of Add can hit, and for the last bin, where the walk
\* of Quantile ends when no running count exceeds the bound
BinValue(i) ==
  CASE i = 0 -> 0
    [] i = 35 -> 1
    [] i = 55 -> 2
    [] i = 170 -> 29
    [] i = 231 -> 100
    [] i = kBinNum - 1 -> kLastBinValue

\* SimpleDDSketch::SimpleDDSketch(ops_num); bins_ is kept as a bag of bin
\* indexes: the counter of bin i is CopiesIn(i, bins_[k])
NewSketch(ops_num) ==
  [ total_exec_num_ |-> 0,
    total_exec_time_nano_ |-> 0,
    min_ |-> [k \in 0 .. (ops_num - 1) |-> kMaxUInt],
    max_ |-> [k \in 0 .. (ops_num - 1) |-> 0],
    exec_nums_ |-> [k \in 0 .. (ops_num - 1) |-> 0],
    bins_ |-> [k \in 0 .. (ops_num - 1) |-> EmptyBag] ]

\* a mutant of Add: the per-kind counter grows by cnt instead of by one
AddCountsCnt(s, ops_id, cnt, lat) ==
  [ s EXCEPT
      !.total_exec_num_ = PlusU(@, cnt),
      !.total_exec_time_nano_ = PlusU(@, lat),
      !.min_[ops_id] = IF lat < @ THEN lat ELSE @,
      !.max_[ops_id] = IF lat > @ THEN lat ELSE @,
      !.bins_[ops_id] = @ (+) SetToBag({BinPos(lat)}),
      !.exec_nums_[ops_id] = @ + cnt ]

\* a mutant of Add: max_ is set to lat whether or not lat is above it
AddAlwaysSetsMax(s, ops_id, cnt, lat) ==
  [ s EXCEPT
      !.total_exec_num_ = PlusU(@, cnt),
      !.total_exec_time_nano_ = PlusU(@, lat),
      !.min_[ops_id] = IF lat < @ THEN lat ELSE @,
      !.max_[ops_id] = lat,
      !.bins_[ops_id] = @ (+) SetToBag({BinPos(lat)}),
      !.exec_nums_[ops_id] = @ + 1 ]

\* SimpleDDSketch::Add(ops_id, cnt, lat)
Add(s, ops_id, cnt, lat) ==
  [ s EXCEPT
      !.total_exec_num_ = PlusU(@, cnt),
      !.total_exec_time_nano_ = PlusU(@, lat),
      !.min_[ops_id] = IF lat < @ THEN lat ELSE @,
      !.max_[ops_id] = IF lat > @ THEN lat ELSE @,
      !.bins_[ops_id] = @ (+) SetToBag({BinPos(lat)}),
      !.exec_nums_[ops_id] = @ + 1 ]

\* a mutant of operator+=: min_ and max_ are taken over from rhs
MergeTakesRhsExtremes(s, rhs) ==
  [ s EXCEPT
      !.total_exec_num_ = PlusU(@, rhs.total_exec_num_),
      !.total_exec_time_nano_ = PlusU(@, rhs.total_exec_time_nano_),
      !.min_ = [k \in DOMAIN s.bins_ |-> rhs.min_[k]],
      !.max_ = [k \in DOMAIN s.bins_ |-> rhs.max_[k]],
      !.exec_nums_ = [k \in DOMAIN s.bins_ |-> s.exec_nums_[k] + rhs.exec_nums_[k]],
      !.bins_ = [k \in DOMAIN s.bins_ |-> s.bins_[k] (+) rhs.bins_[k]] ]

\* SimpleDDSketch::operator+=(rhs): the totals, exec_nums_ and bins_ are
\* added; min_ and max_ are not touched
Merge(s, rhs) ==
  [ s EXCEPT
      !.total_exec_num_ = PlusU(@, rhs.total_exec_num_),
      !.total_exec_time_nano_ = PlusU(@, rhs.total_exec_time_nano_),
      !.exec_nums_ = [k \in DOMAIN s.bins_ |-> s.exec_nums_[k] + rhs.exec_nums_[k]],
      !.bins_ = [k \in DOMAIN s.bins_ |-> s.bins_[k] (+) rhs.bins_[k]] ]

\* SimpleDDSketch::HasLatency(ops_id)
HasLatency(s, ops_id) == s.exec_nums_[ops_id] > 0

\* a mutant of the walk of Quantile: the loop goes on while cnt < bound
RECURSIVE QuantileWalkStrict(_, _, _, _)
QuantileWalkStrict(bins, i, cnt, bound) ==
  IF i < kBinNum - 1 /\ cnt < bound
    THEN LET later == {j \in DOMAIN bins : i < j /\ j <= kBinNum - 1}
         IN IF later = {} THEN kBinNum - 1
            ELSE LET j == CHOOSE x \in later : \A y \in later : x <= y
                 IN QuantileWalkStrict(bins, j, cnt + CopiesIn(j, bins), bound)
    ELSE i

\* the walk of Quantile: the first bin i whose running count exceeds bound,
\* or kBinNum - 1. A step onto an empty bin adds 0 to cnt, so the loop runs
\* on to the next bin that holds a sample, or to the last bin when none does;
\* the walk is computed in these strides.
RECURSIVE QuantileWalk(_, _, _, _)
QuantileWalk(bins, i, cnt, bound) ==
  IF i < kBinNum - 1 /\ cnt <= bound
    THEN LET later == {j \in DOMAIN bins : i < j /\ j <= kBinNum - 1}
         IN IF later = {} THEN kBinNum - 1
            ELSE LET j == CHOOSE x \in later : \A y \in later : x <= y
                 IN QuantileWalk(bins, j, cnt + CopiesIn(j, bins), bound)
    ELSE i

\* SimpleDDSketch::Quantile(ops_id, q) for q = qn / qd; exec_nums_ - 1 wraps
\* to the largest size_t for an empty kind
Quantile(s, ops_id, qn, qd) ==
  IF qn = 0 THEN s.min_[ops_id]
  ELSE IF qn >= qd THEN s.max_[ops_id]
  ELSE LET n == IF s.exec_nums_[ops_id] = 0 THEN kMaxUInt ELSE s.exec_nums_[ops_id] - 1
           bound == IF n = kMaxUInt THEN kMaxUInt ELSE (qn * n) \div qd
       IN BinValue(QuantileWalk(s.bins_[ops_id], 0, CopiesIn(0, s.bins_[ops_id]), bound))

Min2(a, b) == IF a < b THEN a ELSE b
Max2(a, b) == IF a > b THEN a ELSE b


(***************************************************************************)
(* size_t: 64 bits, kept as four limbs of 16 bits, the highest first       *)
(***************************************************************************)
\* the base of a limb
kLimb == 65536

\* the size_t of a small natural number
ToSize(n) == << 0, 0, n \div kLimb, n % kLimb >>

\* the natural number of a size_t below kLimb * kLimb
ToNat(x) == x[3] * kLimb + x[4]

\* SIZE_MAX
kSizeMax == << kLimb - 1, kLimb - 1, kLimb - 1, kLimb - 1 >>

\* x + y of size_t, the carry out of the highest limb kept apart
AddCarry(x, y) ==
  LET s4 == x[4] + y[4]
      s3 == x[3] + y[3] + (s4 \div kLimb)
      s2 == x[2] + y[2] + (s3 \div kLimb)
      s1 == x[1] + y[1] + (s2 \div kLimb)
  IN [ value |-> << s1 % kLimb, s2 % kLimb, s3 % kLimb, s4 % kLimb >>,
       carry |-> s1 \div kLimb ]

\* x + y of size_t: the sum modulo 2^64
AddSize(x, y) == AddCarry(x, y).value

\* x - y of size_t: the difference modulo 2^64
SubSize(x, y) ==
  LET d4 == x[4] - y[4]
      b4 == IF d4 < 0 THEN 1 ELSE 0
      d3 == x[3] - y[3] - b4
      b3 == IF d3 < 0 THEN 1 ELSE 0
      d2 == x[2] - y[2] - b3
      b2 == IF d2 < 0 THEN 1 ELSE 0
      d1 == x[1] - y[1] - b2
  IN << (d1 + kLimb) % kLimb, (d2 + kLimb) % kLimb, (d3 + kLimb) % kLimb,
        (d4 + kLimb) % kLimb >>

\* x * m of size_t for a small m: the product modulo 2^64
MulSize(x, m) ==
  LET p4 == x[4] * m
      p3 == x[3] * m + (p4 \div kLimb)
      p2 == x[2] * m + (p3 \div kLimb)
      p1 == x[1] * m + (p2 \div kLimb)
  IN << p1 % kLimb, p2 % kLimb, p3 % kLimb, p4 % kLimb >>

\* x / d of size_t for a small d > 0: the quotient, rounded down
DivSize(x, d) ==
  LET r1 == x[1] % d
      n2 == r1 * kLimb + x[2]
      n3 == (n2 % d) * kLimb + x[3]
      n4 == (n3 % d) * kLimb + x[4]
  IN << x[1] \div d, n2 \div d, n3 \div d, n4 \div d >>

(***************************************************************************)
(* The split of total_exec_num_ over the workers in the fixed-count        *)
(* runners                                                                 *)
(***************************************************************************)
\* const size_t n = (total_exec_num_ + i) / thread_num_
FloorShare(total, i, threads) == DivSize(AddSize(total, ToSize(i)), threads)

\* exec_num = total_exec_num_ / thread_num_, and for the last worker
\* exec_num = total_exec_num_ - exec_num * (thread_num_ - 1)
LastTakesRest(total, i, threads) ==
  LET exec_num == DivSize(total, threads)
  IN IF i = threads - 1 THEN SubSize(total, MulSize(exec_num, threads - 1)) ELSE exec_num

(***************************************************************************)
(* State                                                                   *)
(***************************************************************************)
VARIABLES
  \* Benchmarker members
  thread_num,     \* thread_num_
  is_running,     \* is_running_
  ready,          \* ready_for_benchmarking_
  worker_cnt,     \* worker_cnt_
  \* the controller thread inside Run
  mpc,            \* the position of the controller in Run
  spawn_i,        \* i of the loop that spawns the workers
  fut_i,          \* the index of the future the controller is at
  status,         \* the status the last wait_until returned
  clock,          \* wake_up: "unset", then "before" or "after" the deadline
  futures,        \* result_futures: the shared state of each promise
  results,        \* results
  agg,            \* the sketch the results are merged into
  cancel_cnt,     \* how often Run stored false into is_running_
  late,           \* the workers whose future was not ready at the deadline
  \* the worker threads inside RunWorker
  wpc,            \* the position of each worker thread
  iter,           \* Worker::iter_
  wsketch,        \* Worker::sketch_
  started,        \* how many Target::Execute calls a worker has started
  completed,      \* how many Target::Execute calls have returned
  samples,        \* the (type, cnt, lat) of each completed Execute, in order
  saw_stop,       \* the worker has read is_running_ == false
  set_cnt,        \* how often a worker's promise was fulfilled
  setup_calls,    \* Target::SetUpForWorker calls of each worker
  teardown_calls, \* Target::TearDownForWorker calls of each worker
  \* two sketches under test
  sk,             \* the sketches
  hist,           \* the bag of samples (ops_id, cnt, lat) each sketch stands for
  steps,          \* the number of Add / operator+= calls so far
  lastOp,         \* the last call and the sketches it was applied to
  \* the configuration of the Benchmarker and what a Run leaves behind
  measure_throughput, \* measure_throughput_
  output_as_csv,  \* output_as_csv_
  rand_seed,      \* rand_seed_
  rand,           \* the generator of Run: its seed and how many values it gave
  seeds,          \* the (thread_id, rand_seed) each RunWorker thread was given
  calls,          \* the member functions of Target each worker has called
  out,            \* the lines written to standard output, in order
  \* what the earlier versions of the runner and a second Run add
  runs,           \* how each earlier call of Run ended, in order
  zombies,        \* the worker threads of earlier Runs that have not ended yet
  total_exec_num, \* total_exec_num_ of the fixed-count runners
  mtx,            \* the mutexes: who holds each exclusively and who shares it
  cond,           \* the workers blocked inside cond_.wait
  prepare_futures \* prepare_futures: whether each promise has been fulfilled

rvars == << thread_num, is_running, ready, worker_cnt, mpc, spawn_i, fut_i, status,
            clock, futures, results, agg, cancel_cnt, late, wpc, iter, wsketch, started,
            completed, samples, saw_stop, set_cnt, setup_calls, teardown_calls >>
svars == << sk, hist, steps, lastOp >>
cvars == << measure_throughput, output_as_csv, rand_seed, rand, seeds, calls, out >>
xvars == << runs, zombies, total_exec_num, mtx, cond, prepare_futures >>
vars == << rvars, svars, cvars, xvars >>

\* the thread ids a Run can spawn, and those of this Run
Threads == 0 .. (MaxThreads - 1)
Workers == 0 .. (thread_num - 1)
\* the two sketches of SketchSpec
SketchIds == {1, 2}

\* the mutexes of the runners
MutexNames == {"x_mtx_", "s_mtx_", "mutex_1st_", "mutex_2nd_"}
\* a mutex nobody holds
Unlocked == [excl |-> "none", shared |-> {}]

\* the value of a future that holds no sketch, and of agg before the merge
NoSketch == [ none |-> TRUE ]

\* a sketch whose vectors were moved out: the totals are copied, the vectors
\* are left empty
MovedFrom(s) ==
  [ total_exec_num_ |-> s.total_exec_num_,
    total_exec_time_nano_ |-> s.total_exec_time_nano_,
    min_ |-> << >>, max_ |-> << >>, exec_nums_ |-> << >>, bins_ |-> << >> ]

(***************************************************************************)
(* The sketches under test: Add and operator+= in any order                *)
(***************************************************************************)
InitSketches ==
  /\ sk = [i \in SketchIds |-> NewSketch(kTotalNum)]
  /\ hist = [i \in SketchIds |-> EmptyBag]
  /\ steps = 0
  /\ lastOp = [op |-> "new"]

\* sk[i].Add(ops_id, cnt, lat)
SkAdd(i, ops_id, cnt, lat) ==
  /\ steps < MaxSteps
  /\ sk' = [sk EXCEPT ![i] = Add(@, ops_id, cnt, lat)]
  /\ hist' = [hist EXCEPT ![i] = @ (+) SetToBag({<<ops_id, cnt, lat>>})]
  /\ steps' = steps + 1
  /\ lastOp' = [op |-> "add", lhs |-> i, ops_id |-> ops_id, cnt |-> cnt, lat |-> lat]
  /\ UNCHANGED << xvars, rvars, cvars >>

\* sk[i] += sk[j]
SkMerge(i, j) ==
  /\ steps < MaxSteps
  /\ i # j
  /\ sk' = [sk EXCEPT ![i] = Merge(@, sk[j])]
  /\ hist' = [hist EXCEPT ![i] = @ (+) hist[j]]
  /\ steps' = steps + 1
  /\ lastOp' = [op |-> "merge", lhs |-> i, rhs |-> j]
  /\ UNCHANGED << xvars, rvars, cvars >>

SkAddAny == \E i \in SketchIds, k \in Kinds, c \in Cnts, l \in Lats : SkAdd(i, k, c, l)
SkMergeAny == \E i, j \in SketchIds : SkMerge(i, j)

SketchNext == SkAddAny \/ SkMergeAny


(***************************************************************************)
(* Benchmarker: the state after Builder::Build()                           *)
(***************************************************************************)
(***************************************************************************)
(* The configuration a Builder hands to the Benchmarker, and the report    *)
(***************************************************************************)
\* the values of (output_as_csv_, measure_throughput_) a Builder can build:
\* the defaults, and what OutputAsCSV(measure_throughput) sets
BuilderConfigs ==
  { [csv |-> FALSE, mt |-> TRUE], [csv |-> TRUE, mt |-> TRUE], [csv |-> TRUE, mt |-> FALSE] }

\* the random seeds of the model
RandSeeds == {0, 1}

\* target_latency_, the quantiles of the report, as fractions: 0.5 and 0.99
target_latency == << <<1, 2>>, <<99, 100>> >>

NoSeed == [ none |-> TRUE ]

\* the state of the members a Builder sets, before Run is called
InitConfigOf(cfg, seed) ==
  /\ output_as_csv = cfg.csv
  /\ measure_throughput = cfg.mt
  /\ rand_seed = seed
  /\ rand = [seed |-> seed, n |-> 0]
  /\ seeds = [w \in Threads |-> NoSeed]
  /\ calls = [w \in Threads |-> << >>]
  /\ out = << >>

\* the defaults of the Builder, with one seed
InitConfig == InitConfigOf([csv |-> FALSE, mt |-> TRUE], 0)

\* every configuration a Builder can build
InitAnyConfig == \E cfg \in BuilderConfigs : \E seed \in RandSeeds : InitConfigOf(cfg, seed)

\* std::mt19937_64: the n-th value of the generator seeded with seed; the
\* values of different (seed, n) are kept apart
RandValue(g) == << "mt19937_64", g.seed, g.n >>

\* a mutant of NextRand: the generator is not advanced by a draw
NextRandStuck(g) == [g EXCEPT !.n = 1]

\* rand(): the generator moves on to its next value
NextRand(g) == [g EXCEPT !.n = @ + 1]

\* a mutant of Log: the message is written in CSV output too
LogAlways(csv, message) == << [line |-> "text", text |-> message] >>

\* Benchmarker::Log: the message, unless the output is CSV
Log(csv, message) == IF csv THEN << >> ELSE << [line |-> "text", text |-> message] >>

\* Benchmarker::LogThroughput(sketch): what is written to stdout. The
\* quotient is a double: x / 0.0 is inf for x > 0 and NaN for x = 0.
LogThroughput(sketch, threads, csv, mt) ==
  IF csv /\ ~mt THEN [is |-> "nothing"]
  ELSE LET exec_num == sketch.total_exec_num_
           avg_nano_time == sketch.total_exec_time_nano_ \div threads
       IN IF avg_nano_time # 0
            THEN [is |-> "quotient", exec_num |-> exec_num, avg_nano_time |-> avg_nano_time]
            ELSE IF exec_num = 0 THEN [is |-> "nan"] ELSE [is |-> "inf"]

\* the line LogThroughput writes, if any: the bare number in CSV, the
\* number after "Throughput [OPS/s]: " otherwise
ThroughputLines(sketch, threads, csv, mt) ==
  LET t == LogThroughput(sketch, threads, csv, mt)
  IN IF t.is = "nothing" THEN << >>
     ELSE << [line |-> "throughput", labelled |-> ~csv, value |-> t] >>

\* the lines of one kind in LogLatency: " OPS ID <id>:" through Log, then
\* one line per quantile of target_latency_, "<id>,<q>,<ns>" in CSV
LatencyLinesOf(sketch, id, csv) ==
  Log(csv, " OPS ID " \o ToString(id) \o ":")
    \o [j \in 1 .. Len(target_latency) |->
          [line |-> "latency", csv |-> csv, id |-> id, q |-> target_latency[j],
           ns |-> Quantile(sketch, id, target_latency[j][1], target_latency[j][2])]]

\* the loop of LogLatency over the kinds, from id on; kinds without a
\* sample are skipped
RECURSIVE LatencyLinesFrom(_, _, _)
LatencyLinesFrom(sketch, id, csv) ==
  IF id >= kTotalNum THEN << >>
  ELSE (IF HasLatency(sketch, id) THEN LatencyLinesOf(sketch, id, csv) ELSE << >>)
         \o LatencyLinesFrom(sketch, id + 1, csv)

\* Benchmarker::LogLatency
LogLatency(sketch, csv, mt) ==
  IF csv /\ mt THEN << >>
  ELSE Log(csv, "Percentile Latency [ns]:") \o LatencyLinesFrom(sketch, 0, csv)

\* what Run writes once the results are merged
Report(sketch, threads, csv, mt) ==
  Log(csv, "...Finish running.")
    \o ThroughputLines(sketch, threads, csv, mt)
    \o LogLatency(sketch, csv, mt)
    \o Log(csv, "*** FINISH ***")

\* the members of a Benchmarker whose is_running_ starts as running, and
\* the threads before Run
InitMembers(running) ==
  /\ thread_num \in 1 .. MaxThreads
  /\ is_running = running
  /\ ready = FALSE
  /\ worker_cnt = 0
  /\ mpc = "start"
  /\ spawn_i = 0
  /\ fut_i = 0
  /\ status = "none"
  /\ clock = "unset"
  /\ futures = [w \in Threads |-> [valid |-> FALSE, ready |-> FALSE, value |-> NoSketch]]
  /\ results = << >>
  /\ agg = NoSketch
  /\ cancel_cnt = 0
  /\ late = {}
  /\ wpc = [w \in Threads |-> "unborn"]
  /\ iter = [w \in Threads |-> [type_ |-> 0, cnt_ |-> 0, len |-> 0]]
  /\ wsketch = [w \in Threads |-> NoSketch]
  /\ started = [w \in Threads |-> 0]
  /\ completed = [w \in Threads |-> 0]
  /\ samples = [w \in Threads |-> << >>]
  /\ saw_stop = [w \in Threads |-> FALSE]
  /\ set_cnt = [w \in Threads |-> 0]
  /\ setup_calls = [w \in Threads |-> 0]
  /\ teardown_calls = [w \in Threads |-> 0]
  /\ runs = << >>
  /\ zombies = 0
  /\ mtx = [m \in MutexNames |-> Unlocked]
  /\ cond = {}
  /\ prepare_futures = [w \in Threads |-> FALSE]

\* the Benchmarker of Run with the two atomic flags; it has no
\* total_exec_num_
InitRunner == InitMembers(FALSE) /\ total_exec_num = 0

(***************************************************************************)
(* Benchmarker::Run, the controller thread                                 *)
(***************************************************************************)
\* a mutant of RunStart: Run leaves the two flags and the counter as the
\* earlier Run left them
RunStartNoReset ==
  /\ mpc = "start"
  /\ spawn_i' = 0
  /\ mpc' = "spawn"
  /\ UNCHANGED << thread_num, is_running, ready, worker_cnt, fut_i, status, clock, futures,
                  results, agg, cancel_cnt, late, wpc, iter, wsketch, started, completed,
                  samples, saw_stop, set_cnt, setup_calls, teardown_calls >>
  /\ rand' = [seed |-> rand_seed, n |-> 0]
  /\ out' = out \o Log(output_as_csv, "*** START ***")
                 \o Log(output_as_csv, "...Prepare workers for benchmarking.")
  /\ UNCHANGED << xvars, svars, measure_throughput, output_as_csv, rand_seed, seeds, calls >>

\* the three stores that open Run
RunStart ==
  /\ mpc = "start"
  /\ is_running' = TRUE
  /\ ready' = FALSE
  /\ worker_cnt' = 0
  /\ spawn_i' = 0
  /\ mpc' = "spawn"
  /\ UNCHANGED << thread_num, fut_i, status, clock, futures, results, agg, cancel_cnt, late,
                  wpc, iter, wsketch, started, completed, samples, saw_stop, set_cnt,
                  setup_calls, teardown_calls >>
  /\ rand' = [seed |-> rand_seed, n |-> 0]
  /\ out' = out \o Log(output_as_csv, "*** START ***")
                 \o Log(output_as_csv, "...Prepare workers for benchmarking.")
  /\ UNCHANGED << xvars, svars, measure_throughput, output_as_csv, rand_seed, seeds, calls >>

\* one round of the loop that creates a promise, keeps its future and
\* detaches a thread running RunWorker
RunSpawn ==
  /\ mpc = "spawn"
  /\ spawn_i < thread_num
  /\ futures' = [futures EXCEPT ![spawn_i] = [valid |-> TRUE, ready |-> FALSE, value |-> NoSketch]]
  /\ wpc' = [wpc EXCEPT ![spawn_i] = "ctor"]
  /\ spawn_i' = spawn_i + 1
  /\ mpc' = IF spawn_i + 1 < thread_num THEN "spawn" ELSE "wait_workers"
  /\ UNCHANGED << thread_num, is_running, ready, worker_cnt, fut_i, status, clock,
                  results, agg, cancel_cnt, late, iter, wsketch, started, completed, samples,
                  saw_stop, set_cnt, setup_calls, teardown_calls >>
  /\ rand' = NextRand(rand)
  /\ seeds' = [seeds EXCEPT ![spawn_i] = [thread_id |-> spawn_i, rand_seed |-> RandValue(rand')]]
  /\ UNCHANGED << xvars, svars, measure_throughput, output_as_csv, rand_seed, calls, out >>

\* a mutant of RunWaitWorkers: the controller goes on as soon as one worker
\* has been created
RunWaitWorkersOne ==
  /\ mpc = "wait_workers"
  /\ worker_cnt >= 1
  /\ mpc' = "set_ready"
  /\ UNCHANGED << thread_num, is_running, ready, worker_cnt, spawn_i, fut_i, status,
                  clock, futures, results, agg, cancel_cnt, late, wpc, iter, wsketch, started,
                  completed, samples, saw_stop, set_cnt, setup_calls, teardown_calls >>
  /\ UNCHANGED << xvars, svars, cvars >>

\* while (worker_cnt_.load() < thread_num_) {}
RunWaitWorkers ==
  /\ mpc = "wait_workers"
  /\ ~(worker_cnt < thread_num)
  /\ mpc' = "set_ready"
  /\ UNCHANGED << thread_num, is_running, ready, worker_cnt, spawn_i, fut_i, status,
                  clock, futures, results, agg, cancel_cnt, late, wpc, iter, wsketch, started,
                  completed, samples, saw_stop, set_cnt, setup_calls, teardown_calls >>
  /\ UNCHANGED << xvars, svars, cvars >>

\* ready_for_benchmarking_.store(true)
RunSetReady ==
  /\ mpc = "set_ready"
  /\ ready' = TRUE
  /\ mpc' = "set_deadline"
  /\ UNCHANGED << thread_num, is_running, worker_cnt, spawn_i, fut_i, status, clock,
                  futures, results, agg, cancel_cnt, late, wpc, iter, wsketch, started,
                  completed, samples, saw_stop, set_cnt, setup_calls, teardown_calls >>
  /\ out' = out \o Log(output_as_csv, "...Run workers.")
  /\ UNCHANGED << xvars, svars, measure_throughput, output_as_csv, rand_seed, rand, seeds, calls >>

\* wake_up = now() + timeout_in_sec_
RunSetDeadline ==
  /\ mpc = "set_deadline"
  /\ clock' = "before"
  /\ fut_i' = 0
  /\ mpc' = "wait_until"
  /\ UNCHANGED << thread_num, is_running, ready, worker_cnt, spawn_i, status, futures,
                  results, agg, cancel_cnt, late, wpc, iter, wsketch, started, completed,
                  samples, saw_stop, set_cnt, setup_calls, teardown_calls >>
  /\ UNCHANGED << xvars, svars, cvars >>

\* the clock reaches wake_up
TimePasses ==
  /\ clock = "before"
  /\ mpc # "done"
  /\ clock' = "after"
  /\ late' = {w \in Workers : set_cnt[w] = 0}
  /\ UNCHANGED << thread_num, is_running, ready, worker_cnt, mpc, spawn_i, fut_i, status,
                  futures, results, agg, cancel_cnt, wpc, iter, wsketch, started,
                  completed, samples, saw_stop, set_cnt, setup_calls, teardown_calls >>
  /\ UNCHANGED << xvars, svars, cvars >>

\* status = future.wait_until(wake_up): returns when the future is ready or
\* the deadline has passed
RunWaitUntil ==
  /\ mpc = "wait_until"
  /\ futures[fut_i].ready \/ clock = "after"
  /\ status' = IF futures[fut_i].ready THEN "ready" ELSE "timeout"
  /\ mpc' = "check"
  /\ UNCHANGED << thread_num, is_running, ready, worker_cnt, spawn_i, fut_i, clock,
                  futures, results, agg, cancel_cnt, late, wpc, iter, wsketch, started,
                  completed, samples, saw_stop, set_cnt, setup_calls, teardown_calls >>
  /\ UNCHANGED << xvars, svars, cvars >>

\* a mutant of RunCheck: is_running_ is not read before false is stored
RunCheckNoLoad ==
  /\ mpc = "check"
  /\ IF status # "ready"
       THEN /\ is_running' = FALSE
            /\ cancel_cnt' = cancel_cnt + 1
            /\ out' = out \o Log(output_as_csv, "...Interrupting workers.")
       ELSE UNCHANGED << is_running, cancel_cnt, out >>
  /\ mpc' = "get"
  /\ UNCHANGED << thread_num, ready, worker_cnt, spawn_i, fut_i, status, clock, futures,
                  results, agg, late, wpc, iter, wsketch, started, completed, samples,
                  saw_stop, set_cnt, setup_calls, teardown_calls >>
  /\ UNCHANGED << xvars, svars, measure_throughput, output_as_csv, rand_seed, rand, seeds, calls >>

\* if (status != ready && is_running_.load()) is_running_.store(false)
RunCheck ==
  /\ mpc = "check"
  /\ IF status # "ready" /\ is_running
       THEN /\ is_running' = FALSE
            /\ cancel_cnt' = cancel_cnt + 1
            /\ out' = out \o Log(output_as_csv, "...Interrupting workers.")
       ELSE UNCHANGED << is_running, cancel_cnt, out >>
  /\ mpc' = "get"
  /\ UNCHANGED << thread_num, ready, worker_cnt, spawn_i, fut_i, status, clock, futures,
                  results, agg, late, wpc, iter, wsketch, started, completed, samples,
                  saw_stop, set_cnt, setup_calls, teardown_calls >>
  /\ UNCHANGED << xvars, svars, measure_throughput, output_as_csv, rand_seed, rand, seeds, calls >>

\* results.emplace_back(future.get()): blocks until the future is ready
RunGet ==
  /\ mpc = "get"
  /\ futures[fut_i].ready
  /\ results' = Append(results, futures[fut_i].value)
  /\ futures' = [futures EXCEPT ![fut_i] = [valid |-> FALSE, ready |-> FALSE, value |-> NoSketch]]
  /\ fut_i' = fut_i + 1
  /\ mpc' = IF fut_i + 1 < thread_num THEN "wait_until" ELSE "merge"
  /\ UNCHANGED << thread_num, is_running, ready, worker_cnt, spawn_i, status, clock, agg,
                  cancel_cnt, late, wpc, iter, wsketch, started, completed, samples, saw_stop,
                  set_cnt, setup_calls, teardown_calls >>
  /\ UNCHANGED << xvars, svars, cvars >>

\* sketch = results[0]; for (i = 1; i < thread_num_; ++i) sketch += results[i]
RECURSIVE MergeResults(_, _, _)
MergeResults(sketch, res, i) ==
  IF i > Len(res) THEN sketch ELSE MergeResults(Merge(sketch, res[i]), res, i + 1)

\* a mutant of RunMerge: the loop over the results starts at i = 0, so
\* results[0] is merged into itself
RunMergeFromZero ==
  /\ mpc = "merge"
  /\ agg' = MergeResults(results[1], SubSeq(results, 1, thread_num), 1)
  /\ mpc' = "done"
  /\ UNCHANGED << thread_num, is_running, ready, worker_cnt, spawn_i, fut_i, status,
                  clock, futures, results, cancel_cnt, late, wpc, iter, wsketch, started,
                  completed, samples, saw_stop, set_cnt, setup_calls, teardown_calls >>
  /\ out' = out \o Report(agg', thread_num, output_as_csv, measure_throughput)
  /\ UNCHANGED << xvars, svars, measure_throughput, output_as_csv, rand_seed, rand, seeds, calls >>

\* the merge of the results; Run returns after the report
RunMerge ==
  /\ mpc = "merge"
  /\ agg' = MergeResults(results[1], SubSeq(results, 1, thread_num), 2)
  /\ mpc' = "done"
  /\ UNCHANGED << thread_num, is_running, ready, worker_cnt, spawn_i, fut_i, status,
                  clock, futures, results, cancel_cnt, late, wpc, iter, wsketch, started,
                  completed, samples, saw_stop, set_cnt, setup_calls, teardown_calls >>
  /\ out' = out \o Report(agg', thread_num, output_as_csv, measure_throughput)
  /\ UNCHANGED << xvars, svars, measure_throughput, output_as_csv, rand_seed, rand, seeds, calls >>


(***************************************************************************)
(* Benchmarker::RunWorker, one detached thread per worker                  *)
(***************************************************************************)
\* OPIter::operator bool
HasMore(it) == it.cnt_ < it.len

\* a mutant of Advance: the iterator moves on by two operations
AdvanceSkips(it) == [it EXCEPT !.cnt_ = @ + 2]

\* OPIter::operator++: the type alternates between kRead and kWrite
Advance(it) == [it EXCEPT !.type_ = 1 - @, !.cnt_ = @ + 1]

\* Worker::Worker: GetOPIter, a sketch of kTotalNum kinds, SetUpForWorker
WorkerCtorTo(w, pc) ==
  /\ wpc[w] = "ctor"
  /\ \E n \in 0 .. MaxOps : iter' = [iter EXCEPT ![w] = [type_ |-> 0, cnt_ |-> 0, len |-> n]]
  /\ wsketch' = [wsketch EXCEPT ![w] = NewSketch(kTotalNum)]
  /\ setup_calls' = [setup_calls EXCEPT ![w] = @ + 1]
  /\ wpc' = [wpc EXCEPT ![w] = pc]
  /\ UNCHANGED << thread_num, is_running, ready, worker_cnt, mpc, spawn_i, fut_i, status,
                  clock, futures, results, agg, cancel_cnt, late, started, completed, samples,
                  saw_stop, set_cnt, teardown_calls >>
  /\ calls' = [calls EXCEPT ![w] = Append(@, "SetUpForWorker")]
  /\ UNCHANGED << xvars, svars, measure_throughput, output_as_csv, rand_seed, rand, seeds, out >>

\* the first statement of RunWorker; worker_cnt_.fetch_add follows
WorkerCtor(w) == WorkerCtorTo(w, "count")

\* a mutant of WorkerCount: the worker that counts last sets the ready flag
\* itself
WorkerCountAndRelease(w) ==
  /\ wpc[w] = "count"
  /\ worker_cnt' = worker_cnt + 1
  /\ ready' = (worker_cnt + 1 = thread_num)
  /\ wpc' = [wpc EXCEPT ![w] = "spin"]
  /\ UNCHANGED << thread_num, is_running, mpc, spawn_i, fut_i, status, clock,
                  futures, results, agg, cancel_cnt, late, iter, wsketch, started, completed,
                  samples, saw_stop, set_cnt, setup_calls, teardown_calls >>
  /\ UNCHANGED << xvars, svars, cvars >>

\* worker_cnt_.fetch_add(1)
WorkerCount(w) ==
  /\ wpc[w] = "count"
  /\ worker_cnt' = worker_cnt + 1
  /\ wpc' = [wpc EXCEPT ![w] = "spin"]
  /\ UNCHANGED << thread_num, is_running, ready, mpc, spawn_i, fut_i, status, clock,
                  futures, results, agg, cancel_cnt, late, iter, wsketch, started, completed,
                  samples, saw_stop, set_cnt, setup_calls, teardown_calls >>
  /\ UNCHANGED << xvars, svars, cvars >>

\* while (!ready_for_benchmarking_.load()) {}
WorkerSpin(w) ==
  /\ wpc[w] = "spin"
  /\ ready
  /\ wpc' = [wpc EXCEPT ![w] = "loop"]
  /\ UNCHANGED << thread_num, is_running, ready, worker_cnt, mpc, spawn_i, fut_i, status,
                  clock, futures, results, agg, cancel_cnt, late, iter, wsketch, started,
                  completed, samples, saw_stop, set_cnt, setup_calls, teardown_calls >>
  /\ UNCHANGED << xvars, svars, cvars >>

\* a mutant of WorkerLoopCheck: the loop goes on while the iterator has
\* operations, without a look at is_running_
WorkerLoopCheckNoFlag(w) ==
  /\ wpc[w] = "loop"
  /\ IF HasMore(iter[w])
       THEN /\ started' = [started EXCEPT ![w] = @ + 1]
            /\ wpc' = [wpc EXCEPT ![w] = "exec"]
            /\ calls' = [calls EXCEPT ![w] = Append(@, "Execute")]
            /\ UNCHANGED saw_stop
       ELSE /\ saw_stop' = [saw_stop EXCEPT ![w] = HasMore(iter[w])]
            /\ wpc' = [wpc EXCEPT ![w] = "handoff"]
            /\ UNCHANGED << started, calls >>
  /\ UNCHANGED << thread_num, is_running, ready, worker_cnt, mpc, spawn_i, fut_i, status,
                  clock, futures, results, agg, cancel_cnt, late, iter, wsketch, completed,
                  samples, set_cnt, setup_calls, teardown_calls >>
  /\ UNCHANGED << xvars, svars, measure_throughput, output_as_csv, rand_seed, rand, seeds, out >>

\* the condition of the measurement loop, iter_ && is_running_.load(); when
\* it holds the stopwatch is started and Target::Execute is called
WorkerLoopCheck(w) ==
  /\ wpc[w] = "loop"
  /\ IF HasMore(iter[w]) /\ is_running
       THEN /\ started' = [started EXCEPT ![w] = @ + 1]
            /\ wpc' = [wpc EXCEPT ![w] = "exec"]
            /\ calls' = [calls EXCEPT ![w] = Append(@, "Execute")]
            /\ UNCHANGED saw_stop
       ELSE /\ saw_stop' = [saw_stop EXCEPT ![w] = HasMore(iter[w])]
            /\ wpc' = [wpc EXCEPT ![w] = "handoff"]
            /\ UNCHANGED << started, calls >>
  /\ UNCHANGED << thread_num, is_running, ready, worker_cnt, mpc, spawn_i, fut_i, status,
                  clock, futures, results, agg, cancel_cnt, late, iter, wsketch, completed,
                  samples, set_cnt, setup_calls, teardown_calls >>
  /\ UNCHANGED << xvars, svars, measure_throughput, output_as_csv, rand_seed, rand, seeds, out >>

\* what Target::Execute returns for the i-th operation of worker w: the
\* modelled target reports 1 .. MaxCnt executions, by thread and operation
ExecuteReturn(w, i) == 1 + ((w + i) % MaxCnt)

\* what the stopwatch reads for the i-th operation of worker w: the modelled
\* clock walks through the latencies 3, 100, 0, 1, by thread and operation
ElapsedNano(w, i) == << 3, 100, 0, 1 >>[1 + ((w + i) % 4)]

\* a mutant of WorkerExecuteEnd: the stop flag is read again after Execute
\* and the sample of a stopped worker is dropped
WorkerExecuteEndDrop(w) ==
  /\ wpc[w] = "exec"
  /\ LET cnt == ExecuteReturn(w, iter[w].cnt_)
         lat == ElapsedNano(w, iter[w].cnt_)
     IN IF is_running
          THEN /\ wsketch' = [wsketch EXCEPT ![w] = Add(@, iter[w].type_, cnt, lat)]
               /\ samples' = [samples EXCEPT ![w] = Append(@, <<iter[w].type_, cnt, lat>>)]
          ELSE UNCHANGED << wsketch, samples >>
  /\ completed' = [completed EXCEPT ![w] = @ + 1]
  /\ iter' = [iter EXCEPT ![w] = Advance(@)]
  /\ wpc' = [wpc EXCEPT ![w] = "loop"]
  /\ UNCHANGED << thread_num, is_running, ready, worker_cnt, mpc, spawn_i, fut_i, status,
                  clock, futures, results, agg, cancel_cnt, late, started, saw_stop, set_cnt,
                  setup_calls, teardown_calls >>
  /\ UNCHANGED << xvars, svars, cvars >>

\* Target::Execute returns cnt; the stopwatch is stopped and reads lat; the
\* sample is added to the sketch and the iterator advances
WorkerExecuteEnd(w) ==
  /\ wpc[w] = "exec"
  /\ LET cnt == ExecuteReturn(w, iter[w].cnt_)
         lat == ElapsedNano(w, iter[w].cnt_)
     IN /\ wsketch' = [wsketch EXCEPT ![w] = Add(@, iter[w].type_, cnt, lat)]
        /\ samples' = [samples EXCEPT ![w] = Append(@, <<iter[w].type_, cnt, lat>>)]
  /\ completed' = [completed EXCEPT ![w] = @ + 1]
  /\ iter' = [iter EXCEPT ![w] = Advance(@)]
  /\ wpc' = [wpc EXCEPT ![w] = "loop"]
  /\ UNCHANGED << thread_num, is_running, ready, worker_cnt, mpc, spawn_i, fut_i, status,
                  clock, futures, results, agg, cancel_cnt, late, started, saw_stop, set_cnt,
                  setup_calls, teardown_calls >>
  /\ UNCHANGED << xvars, svars, cvars >>

\* one round of the loop of Worker::Measure after its condition held:
\* cnt = Execute(type, ops), Stop, sketch_.Add(type, cnt, elapsed), ++iter_
WorkerRecord(w, cnt, lat) ==
  /\ wpc[w] = "exec"
  /\ wsketch' = [wsketch EXCEPT ![w] = Add(@, iter[w].type_, cnt, lat)]
  /\ samples' = [samples EXCEPT ![w] = Append(@, <<iter[w].type_, cnt, lat>>)]
  /\ completed' = [completed EXCEPT ![w] = @ + 1]
  /\ iter' = [iter EXCEPT ![w] = Advance(@)]
  /\ wpc' = [wpc EXCEPT ![w] = "loop"]
  /\ UNCHANGED << thread_num, is_running, ready, worker_cnt, mpc, spawn_i, fut_i, status,
                  clock, futures, results, agg, cancel_cnt, late, started, saw_stop, set_cnt,
                  setup_calls, teardown_calls >>
  /\ UNCHANGED << xvars, svars, cvars >>

\* the round for any return value of Target::Execute and any reading of
\* the stopwatch
WorkerRecordAny(w) == \E cnt \in Cnts, lat \in Lats : WorkerRecord(w, cnt, lat)

\* a mutant of WorkerHandoff: the sketch is moved out but the promise is
\* never fulfilled
WorkerHandoffNoSet(w) ==
  /\ wpc[w] = "handoff"
  /\ wsketch' = [wsketch EXCEPT ![w] = MovedFrom(@)]
  /\ wpc' = [wpc EXCEPT ![w] = "dtor"]
  /\ UNCHANGED << thread_num, is_running, ready, worker_cnt, mpc, spawn_i, fut_i, status,
                  clock, futures, results, agg, cancel_cnt, late, iter, started, completed,
                  samples, saw_stop, set_cnt, setup_calls, teardown_calls >>
  /\ UNCHANGED << xvars, svars, cvars >>

\* a mutant of WorkerHandoff: when the throughput is measured, only the
\* totals of the sketch are handed over
WorkerHandoffByFlag(w) ==
  /\ wpc[w] = "handoff"
  /\ futures' = [futures EXCEPT ![w] =
                   [@ EXCEPT !.ready = TRUE,
                             !.value = IF measure_throughput
                                         THEN [NewSketch(kTotalNum) EXCEPT
                                                 !.total_exec_num_ = wsketch[w].total_exec_num_,
                                                 !.total_exec_time_nano_ =
                                                    wsketch[w].total_exec_time_nano_]
                                         ELSE wsketch[w]]]
  /\ wsketch' = [wsketch EXCEPT ![w] = MovedFrom(@)]
  /\ set_cnt' = [set_cnt EXCEPT ![w] = @ + 1]
  /\ wpc' = [wpc EXCEPT ![w] = "dtor"]
  /\ UNCHANGED << thread_num, is_running, ready, worker_cnt, mpc, spawn_i, fut_i, status,
                  clock, results, agg, cancel_cnt, late, iter, started, completed, samples,
                  saw_stop, setup_calls, teardown_calls >>
  /\ UNCHANGED << xvars, svars, cvars >>

\* result_p.set_value(worker.MoveSketch())
WorkerHandoff(w) ==
  /\ wpc[w] = "handoff"
  /\ futures' = [futures EXCEPT ![w] = [@ EXCEPT !.ready = TRUE, !.value = wsketch[w]]]
  /\ wsketch' = [wsketch EXCEPT ![w] = MovedFrom(@)]
  /\ set_cnt' = [set_cnt EXCEPT ![w] = @ + 1]
  /\ wpc' = [wpc EXCEPT ![w] = "dtor"]
  /\ UNCHANGED << thread_num, is_running, ready, worker_cnt, mpc, spawn_i, fut_i, status,
                  clock, results, agg, cancel_cnt, late, iter, started, completed, samples,
                  saw_stop, setup_calls, teardown_calls >>
  /\ UNCHANGED << xvars, svars, cvars >>

\* Worker::~Worker at the end of RunWorker: TearDownForWorker; the thread ends
WorkerDtor(w) ==
  /\ wpc[w] = "dtor"
  /\ teardown_calls' = [teardown_calls EXCEPT ![w] = @ + 1]
  /\ wpc' = [wpc EXCEPT ![w] = "exited"]
  /\ UNCHANGED << thread_num, is_running, ready, worker_cnt, mpc, spawn_i, fut_i, status,
                  clock, futures, results, agg, cancel_cnt, late, iter, wsketch, started,
                  completed, samples, saw_stop, set_cnt, setup_calls >>
  /\ calls' = [calls EXCEPT ![w] = Append(@, "TearDownForWorker")]
  /\ UNCHANGED << xvars, svars, measure_throughput, output_as_csv, rand_seed, rand, seeds, out >>

\* an exception leaves RunWorker: the function has no handler and runs as
\* the body of a detached std::thread, so std::terminate is called and the
\* process ends with all its threads; the promise is never given anything
Terminate(w) ==
  /\ mpc' = "terminated"
  /\ wpc' = [x \in Threads |->
               IF x = w THEN "threw"
               ELSE IF wpc[x] \in {"unborn", "exited"} THEN wpc[x] ELSE "killed"]

\* the constructor of Worker throws (GetOPIter or SetUpForWorker)
WorkerCtorThrows(w) ==
  /\ wpc[w] = "ctor"
  /\ mpc # "terminated"
  /\ Terminate(w)
  /\ UNCHANGED << thread_num, is_running, ready, worker_cnt, spawn_i, fut_i, status, clock,
                  futures, results, agg, cancel_cnt, late, iter, wsketch, started, completed,
                  samples, saw_stop, set_cnt, setup_calls, teardown_calls >>
  /\ UNCHANGED << xvars, svars, cvars >>

\* Target::Execute throws inside the measurement loop; whether the stack
\* is unwound, and ~Worker run, before std::terminate is up to the
\* implementation
WorkerExecuteThrows(w) ==
  /\ wpc[w] = "exec"
  /\ mpc # "terminated"
  /\ Terminate(w)
  /\ \E unwound \in BOOLEAN :
       /\ teardown_calls' = [teardown_calls EXCEPT ![w] = IF unwound THEN @ + 1 ELSE @]
       /\ calls' = [calls EXCEPT ![w] = IF unwound THEN Append(@, "TearDownForWorker") ELSE @]
  /\ UNCHANGED << thread_num, is_running, ready, worker_cnt, spawn_i, fut_i, status, clock,
                  futures, results, agg, cancel_cnt, late, iter, wsketch, started, completed,
                  samples, saw_stop, set_cnt, setup_calls >>
  /\ UNCHANGED << xvars, svars, measure_throughput, output_as_csv, rand_seed, rand, seeds, out >>

(***************************************************************************)
(* Specifications                                                          *)
(***************************************************************************)
Controller ==
  \/ RunStart
  \/ RunSpawn
  \/ RunWaitWorkers
  \/ RunSetReady
  \/ RunSetDeadline
  \/ RunWaitUntil
  \/ RunCheck
  \/ RunGet
  \/ RunMerge

WorkerStep(w) ==
  \/ WorkerCtor(w)
  \/ WorkerCount(w)
  \/ WorkerSpin(w)
  \/ WorkerLoopCheck(w)
  \/ WorkerExecuteEnd(w)
  \/ WorkerHandoff(w)
  \/ WorkerDtor(w)

Init == InitRunner /\ InitSketches /\ InitConfig

Next ==
  \/ RunStart
  \/ RunSpawn
  \/ RunWaitWorkers
  \/ RunSetReady
  \/ RunSetDeadline
  \/ TimePasses
  \/ RunWaitUntil
  \/ RunCheck
  \/ RunGet
  \/ RunMerge
  \/ \E w \in Threads : WorkerCtor(w)
  \/ \E w \in Threads : WorkerCount(w)
  \/ \E w \in Threads : WorkerSpin(w)
  \/ \E w \in Threads : WorkerLoopCheck(w)
  \/ \E w \in Threads : WorkerExecuteEnd(w)
  \/ \E w \in Threads : WorkerHandoff(w)
  \/ \E w \in Threads : WorkerDtor(w)

Spec == Init /\ [][Next]_vars

\* every thread that can take a step eventually takes one; the clock is
\* not forced to reach the deadline
FairSpec ==
  /\ Init
  /\ [][Next]_vars
  /\ WF_vars(Controller)
  /\ \A w \in Threads : WF_vars(WorkerStep(w))

SketchInit == InitRunner /\ thread_num = 1 /\ InitSketches /\ InitConfig

SketchSpec == SketchInit /\ [][SketchNext]_vars

\* one worker, every configuration of the Builder, every return value of
\* Execute and every reading of the stopwatch
MeasureInit == InitRunner /\ thread_num = 1 /\ InitSketches /\ InitAnyConfig

MeasureNext ==
  \/ RunStart
  \/ RunSpawn
  \/ RunWaitWorkers
  \/ RunSetReady
  \/ RunSetDeadline
  \/ TimePasses
  \/ RunWaitUntil
  \/ RunCheck
  \/ RunGet
  \/ RunMerge
  \/ \E w \in Threads : WorkerCtor(w)
  \/ \E w \in Threads : WorkerCount(w)
  \/ \E w \in Threads : WorkerSpin(w)
  \/ \E w \in Threads : WorkerLoopCheck(w)
  \/ \E w \in Threads : WorkerRecordAny(w)
  \/ \E w \in Threads : WorkerHandoff(w)
  \/ \E w \in Threads : WorkerDtor(w)

MeasureSpec == MeasureInit /\ [][MeasureNext]_vars

\* one Run for every random seed, with the other defaults of the Builder
SeedInit ==
  /\ InitRunner
  /\ InitSketches
  /\ \E seed \in RandSeeds : InitConfigOf([csv |-> FALSE, mt |-> TRUE], seed)

SeedSpec == SeedInit /\ [][Next]_vars

\* Spec with a Target whose functions can throw
FaultNext ==
  \/ Next
  \/ \E w \in Threads : WorkerCtorThrows(w)
  \/ \E w \in Threads : WorkerExecuteThrows(w)

FaultSpec == Init /\ [][FaultNext]_vars


(***************************************************************************)
(* RepeatSpec: Run is called again on the same Benchmarker                 *)
(***************************************************************************)
\* Run has returned and the caller calls it again: the members of the
\* Benchmarker are as the earlier Run left them, the locals of Run are new;
\* the detached workers of the earlier Run that have not reached
\* ~Worker yet go on beside the new Run; out, calls and the counters of the
\* workers are kept per Run
RunAgain ==
  /\ mpc = "done"
  /\ Len(runs) + 1 < MaxRuns
  /\ runs' = Append(runs, IF cancel_cnt > 0 THEN "timeout" ELSE "exhausted")
  /\ zombies' = zombies + Cardinality({w \in Workers : wpc[w] = "dtor"})
  /\ mpc' = "start"
  /\ spawn_i' = 0
  /\ fut_i' = 0
  /\ status' = "none"
  /\ clock' = "unset"
  /\ futures' = [w \in Threads |-> [valid |-> FALSE, ready |-> FALSE, value |-> NoSketch]]
  /\ results' = << >>
  /\ agg' = NoSketch
  /\ cancel_cnt' = 0
  /\ late' = {}
  /\ wpc' = [w \in Threads |-> "unborn"]
  /\ iter' = [w \in Threads |-> [type_ |-> 0, cnt_ |-> 0, len |-> 0]]
  /\ wsketch' = [w \in Threads |-> NoSketch]
  /\ started' = [w \in Threads |-> 0]
  /\ completed' = [w \in Threads |-> 0]
  /\ samples' = [w \in Threads |-> << >>]
  /\ saw_stop' = [w \in Threads |-> FALSE]
  /\ set_cnt' = [w \in Threads |-> 0]
  /\ setup_calls' = [w \in Threads |-> 0]
  /\ teardown_calls' = [w \in Threads |-> 0]
  /\ seeds' = [w \in Threads |-> NoSeed]
  /\ calls' = [w \in Threads |-> << >>]
  /\ out' = << >>
  /\ UNCHANGED << thread_num, is_running, ready, worker_cnt, measure_throughput,
                  output_as_csv, rand_seed, rand, total_exec_num, mtx, cond,
                  prepare_futures, svars >>

\* Worker::~Worker of a worker of an earlier Run: TearDownForWorker; the
\* thread ends
ZombieDtor ==
  /\ zombies > 0
  /\ zombies' = zombies - 1
  /\ UNCHANGED << rvars, svars, cvars, runs, total_exec_num, mtx, cond, prepare_futures >>

RepeatNext ==
  \/ Next
  \/ RunAgain
  \/ ZombieDtor

RepeatSpec == Init /\ [][RepeatNext]_vars

(***************************************************************************)
(* CvSpec: the runner that starts its workers through a mutex and a        *)
(* condition variable (src/unnamed/part_010)                               *)
(***************************************************************************)
\* a mutex can be locked exclusively when nobody holds it in any way, and
\* shared when nobody holds it exclusively
CanLock(m) == mtx[m].excl = "none" /\ mtx[m].shared = {}
CanLockShared(m) == mtx[m].excl = "none"

\* Log("...Prepare workers for benchmarking."); ready_for_benchmarking_ =
\* false; the generator of the seeds
CvRunStart ==
  /\ mpc = "start"
  /\ ready' = FALSE
  /\ out' = out \o Log(output_as_csv, "...Prepare workers for benchmarking.")
  /\ rand' = [seed |-> rand_seed, n |-> 0]
  /\ spawn_i' = 0
  /\ mpc' = "spawn"
  /\ UNCHANGED << thread_num, is_running, worker_cnt, fut_i, status, clock, futures, results,
                  agg, cancel_cnt, late, wpc, iter, wsketch, started, completed, samples,
                  saw_stop, set_cnt, setup_calls, teardown_calls, sk, hist, steps, lastOp,
                  measure_throughput, output_as_csv, rand_seed, seeds, calls, runs, zombies,
                  total_exec_num, mtx, cond, prepare_futures >>

\* for (auto &&future : prepare_futures) future.get(): one future a step
CvRunWaitPrepared ==
  /\ mpc = "wait_workers"
  /\ prepare_futures[fut_i]
  /\ fut_i' = IF fut_i + 1 < thread_num THEN fut_i + 1 ELSE 0
  /\ mpc' = IF fut_i + 1 < thread_num THEN "wait_workers" ELSE "lock_ready"
  /\ UNCHANGED << thread_num, is_running, ready, worker_cnt, spawn_i, status, clock, futures,
                  results, agg, cancel_cnt, late, wpc, iter, wsketch, started, completed,
                  samples, saw_stop, set_cnt, setup_calls, teardown_calls, sk, hist, steps,
                  lastOp, measure_throughput, output_as_csv, rand_seed, rand, seeds, calls, out,
                  runs, zombies, total_exec_num, mtx, cond, prepare_futures >>

\* Log("...Run workers."); const std::lock_guard x_guard{x_mtx_}
CvRunLock ==
  /\ mpc = "lock_ready"
  /\ CanLock("x_mtx_")
  /\ mtx' = [mtx EXCEPT !["x_mtx_"].excl = "main"]
  /\ out' = out \o Log(output_as_csv, "...Run workers.")
  /\ mpc' = "set_ready"
  /\ UNCHANGED << thread_num, is_running, ready, worker_cnt, spawn_i, fut_i, status, clock,
                  futures, results, agg, cancel_cnt, late, wpc, iter, wsketch, started,
                  completed, samples, saw_stop, set_cnt, setup_calls, teardown_calls, sk, hist,
                  steps, lastOp, measure_throughput, output_as_csv, rand_seed, rand, seeds,
                  calls, runs, zombies, total_exec_num, cond, prepare_futures >>

\* ready_for_benchmarking_ = true; the guard goes out of scope
CvRunSetReady ==
  /\ mpc = "set_ready"
  /\ ready' = TRUE
  /\ mtx' = [mtx EXCEPT !["x_mtx_"].excl = "none"]
  /\ mpc' = "notify"
  /\ UNCHANGED << thread_num, is_running, worker_cnt, spawn_i, fut_i, status, clock, futures,
                  results, agg, cancel_cnt, late, wpc, iter, wsketch, started, completed,
                  samples, saw_stop, set_cnt, setup_calls, teardown_calls, sk, hist, steps,
                  lastOp, measure_throughput, output_as_csv, rand_seed, rand, seeds, calls, out,
                  runs, zombies, total_exec_num, cond, prepare_futures >>

\* cond_.notify_all(): every thread blocked in the wait is woken
CvRunNotify ==
  /\ mpc = "notify"
  /\ cond' = {}
  /\ fut_i' = 0
  /\ mpc' = "wait_until"
  /\ UNCHANGED << thread_num, is_running, ready, worker_cnt, spawn_i, status, clock, futures,
                  results, agg, cancel_cnt, late, wpc, iter, wsketch, started, completed,
                  samples, saw_stop, set_cnt, setup_calls, teardown_calls, sk, hist, steps,
                  lastOp, measure_throughput, output_as_csv, rand_seed, rand, seeds, calls, out,
                  runs, zombies, total_exec_num, mtx, prepare_futures >>

\* future.wait_for(timeout_in_sec_) returns because the future is ready
CvRunWaitFor ==
  /\ mpc = "wait_until"
  /\ futures[fut_i].ready
  /\ status' = "ready"
  /\ mpc' = "check"
  /\ UNCHANGED << thread_num, is_running, ready, worker_cnt, spawn_i, fut_i, clock, futures,
                  results, agg, cancel_cnt, late, wpc, iter, wsketch, started, completed,
                  samples, saw_stop, set_cnt, setup_calls, teardown_calls, sk, hist, steps,
                  lastOp, measure_throughput, output_as_csv, rand_seed, rand, seeds, calls, out,
                  runs, zombies, total_exec_num, mtx, cond, prepare_futures >>

\* future.wait_for(timeout_in_sec_) returns because the time is over
CvRunWaitForTimeout ==
  /\ mpc = "wait_until"
  /\ ~futures[fut_i].ready
  /\ status' = "timeout"
  /\ mpc' = "check"
  /\ UNCHANGED << thread_num, is_running, ready, worker_cnt, spawn_i, fut_i, clock, futures,
                  results, agg, cancel_cnt, late, wpc, iter, wsketch, started, completed,
                  samples, saw_stop, set_cnt, setup_calls, teardown_calls, sk, hist, steps,
                  lastOp, measure_throughput, output_as_csv, rand_seed, rand, seeds, calls, out,
                  runs, zombies, total_exec_num, mtx, cond, prepare_futures >>

\* if (status != std::future_status::ready) { Log; is_running_.store(false) }
CvRunCheck ==
  /\ mpc = "check"
  /\ IF status # "ready"
       THEN /\ is_running' = FALSE
            /\ cancel_cnt' = cancel_cnt + 1
            /\ out' = out \o Log(output_as_csv, "...Interrupting workers.")
       ELSE UNCHANGED << is_running, cancel_cnt, out >>
  /\ mpc' = "get"
  /\ UNCHANGED << thread_num, ready, worker_cnt, spawn_i, fut_i, status, clock, futures,
                  results, agg, late, wpc, iter, wsketch, started, completed, samples, saw_stop,
                  set_cnt, setup_calls, teardown_calls, sk, hist, steps, lastOp,
                  measure_throughput, output_as_csv, rand_seed, rand, seeds, calls, runs,
                  zombies, total_exec_num, mtx, cond, prepare_futures >>

\* Log("...Finish running."), the merge of the results, and LogThroughput
\* or LogLatency, which have no guard of their own here
CvRunFinish ==
  /\ mpc = "merge"
  /\ agg' = MergeResults(results[1], SubSeq(results, 1, thread_num), 2)
  /\ out' = out \o Log(output_as_csv, "...Finish running.")
                 \o (IF measure_throughput
                       THEN ThroughputLines(agg', thread_num, output_as_csv, TRUE)
                       ELSE LogLatency(agg', output_as_csv, FALSE))
  /\ mpc' = "done"
  /\ UNCHANGED << thread_num, is_running, ready, worker_cnt, spawn_i, fut_i, status, clock,
                  futures, results, cancel_cnt, late, wpc, iter, wsketch, started, completed,
                  samples, saw_stop, set_cnt, setup_calls, teardown_calls, sk, hist, steps,
                  lastOp, measure_throughput, output_as_csv, rand_seed, rand, seeds, calls,
                  runs, zombies, total_exec_num, mtx, cond, prepare_futures >>

\* Worker worker{...}; the lock of x_mtx_ follows
CvWorkerCtor(w) == WorkerCtorTo(w, "lock")

\* std::unique_lock lock{x_mtx_}
CvWorkerLock(w) ==
  /\ wpc[w] = "lock"
  /\ CanLock("x_mtx_")
  /\ mtx' = [mtx EXCEPT !["x_mtx_"].excl = "worker"]
  /\ wpc' = [wpc EXCEPT ![w] = "prepare"]
  /\ UNCHANGED << thread_num, is_running, ready, worker_cnt, mpc, spawn_i, fut_i, status, clock,
                  futures, results, agg, cancel_cnt, late, iter, wsketch, started, completed,
                  samples, saw_stop, set_cnt, setup_calls, teardown_calls, sk, hist, steps,
                  lastOp, measure_throughput, output_as_csv, rand_seed, rand, seeds, calls, out,
                  runs, zombies, total_exec_num, cond, prepare_futures >>

\* prepare_p.set_value(), with x_mtx_ held
CvWorkerPrepared(w) ==
  /\ wpc[w] = "prepare"
  /\ prepare_futures' = [prepare_futures EXCEPT ![w] = TRUE]
  /\ wpc' = [wpc EXCEPT ![w] = "check"]
  /\ UNCHANGED << thread_num, is_running, ready, worker_cnt, mpc, spawn_i, fut_i, status, clock,
                  futures, results, agg, cancel_cnt, late, iter, wsketch, started, completed,
                  samples, saw_stop, set_cnt, setup_calls, teardown_calls, sk, hist, steps,
                  lastOp, measure_throughput, output_as_csv, rand_seed, rand, seeds, calls, out,
                  runs, zombies, total_exec_num, mtx, cond >>

\* a mutant of CvWorkerWait: the wait has no predicate, the thread blocks
\* whatever the flag says
CvWorkerWaitBlind(w) ==
  /\ wpc[w] = "check"
  /\ mtx' = [mtx EXCEPT !["x_mtx_"].excl = "none"]
  /\ cond' = cond \cup {w}
  /\ wpc' = [wpc EXCEPT ![w] = "wait"]
  /\ UNCHANGED << thread_num, is_running, ready, worker_cnt, mpc, spawn_i, fut_i, status, clock,
                  futures, results, agg, cancel_cnt, late, iter, wsketch, started, completed,
                  samples, saw_stop, set_cnt, setup_calls, teardown_calls, sk, hist, steps,
                  lastOp, measure_throughput, output_as_csv, rand_seed, rand, seeds, calls, out,
                  runs, zombies, total_exec_num, prepare_futures >>

\* cond_.wait(lock, pred) with x_mtx_ held: when the flag is set the wait
\* returns and the lock goes out of scope, otherwise x_mtx_ is released and
\* the thread blocks, in one step
CvWorkerWait(w) ==
  /\ wpc[w] = "check"
  /\ mtx' = [mtx EXCEPT !["x_mtx_"].excl = "none"]
  /\ IF ready
       THEN /\ wpc' = [wpc EXCEPT ![w] = "loop"]
            /\ UNCHANGED cond
       ELSE /\ cond' = cond \cup {w}
            /\ wpc' = [wpc EXCEPT ![w] = "wait"]
  /\ UNCHANGED << thread_num, is_running, ready, worker_cnt, mpc, spawn_i, fut_i, status, clock,
                  futures, results, agg, cancel_cnt, late, iter, wsketch, started, completed,
                  samples, saw_stop, set_cnt, setup_calls, teardown_calls, sk, hist, steps,
                  lastOp, measure_throughput, output_as_csv, rand_seed, rand, seeds, calls, out,
                  runs, zombies, total_exec_num, prepare_futures >>

\* a wake-up without a notification, which the condition variable may give
CvSpuriousWakeUp(w) ==
  /\ wpc[w] = "wait"
  /\ w \in cond
  /\ cond' = cond \ {w}
  /\ UNCHANGED << thread_num, is_running, ready, worker_cnt, mpc, spawn_i, fut_i, status, clock,
                  futures, results, agg, cancel_cnt, late, wpc, iter, wsketch, started,
                  completed, samples, saw_stop, set_cnt, setup_calls, teardown_calls, sk, hist,
                  steps, lastOp, measure_throughput, output_as_csv, rand_seed, rand, seeds,
                  calls, out, runs, zombies, total_exec_num, mtx, prepare_futures >>

\* the woken thread takes x_mtx_ again before it looks at the flag
CvWorkerWake(w) ==
  /\ wpc[w] = "wait"
  /\ w \notin cond
  /\ CanLock("x_mtx_")
  /\ mtx' = [mtx EXCEPT !["x_mtx_"].excl = "worker"]
  /\ wpc' = [wpc EXCEPT ![w] = "check"]
  /\ UNCHANGED << thread_num, is_running, ready, worker_cnt, mpc, spawn_i, fut_i, status, clock,
                  futures, results, agg, cancel_cnt, late, iter, wsketch, started, completed,
                  samples, saw_stop, set_cnt, setup_calls, teardown_calls, sk, hist, steps,
                  lastOp, measure_throughput, output_as_csv, rand_seed, rand, seeds, calls, out,
                  runs, zombies, total_exec_num, cond, prepare_futures >>

\* result_p.set_value_at_thread_exit(worker.MoveSketch()): the sketch is
\* stored, the future is not ready yet
CvWorkerHandoff(w) ==
  /\ wpc[w] = "handoff"
  /\ futures' = [futures EXCEPT ![w] = [@ EXCEPT !.value = wsketch[w]]]
  /\ wsketch' = [wsketch EXCEPT ![w] = MovedFrom(@)]
  /\ set_cnt' = [set_cnt EXCEPT ![w] = @ + 1]
  /\ wpc' = [wpc EXCEPT ![w] = "dtor"]
  /\ UNCHANGED << thread_num, is_running, ready, worker_cnt, mpc, spawn_i, fut_i, status, clock,
                  results, agg, cancel_cnt, late, iter, started, completed, samples, saw_stop,
                  setup_calls, teardown_calls, sk, hist, steps, lastOp, measure_throughput,
                  output_as_csv, rand_seed, rand, seeds, calls, out, runs, zombies,
                  total_exec_num, mtx, cond, prepare_futures >>

\* RunWorker returns: ~Worker calls TearDownForWorker, the thread ends and
\* the future becomes ready
CvWorkerEnd(w) ==
  /\ wpc[w] = "dtor"
  /\ teardown_calls' = [teardown_calls EXCEPT ![w] = @ + 1]
  /\ calls' = [calls EXCEPT ![w] = Append(@, "TearDownForWorker")]
  /\ futures' = [futures EXCEPT ![w] = [@ EXCEPT !.ready = TRUE]]
  /\ wpc' = [wpc EXCEPT ![w] = "exited"]
  /\ UNCHANGED << thread_num, is_running, ready, worker_cnt, mpc, spawn_i, fut_i, status, clock,
                  results, agg, cancel_cnt, late, iter, wsketch, started, completed, samples,
                  saw_stop, set_cnt, setup_calls, sk, hist, steps, lastOp, measure_throughput,
                  output_as_csv, rand_seed, rand, seeds, out, runs, zombies, total_exec_num,
                  mtx, cond, prepare_futures >>

\* the steps of the controller that do not depend on the clock
CvController ==
  \/ CvRunStart
  \/ RunSpawn
  \/ CvRunWaitPrepared
  \/ CvRunLock
  \/ CvRunSetReady
  \/ CvRunNotify
  \/ CvRunWaitFor
  \/ CvRunCheck
  \/ RunGet
  \/ CvRunFinish

CvWorkerStep(w) ==
  \/ CvWorkerCtor(w)
  \/ CvWorkerLock(w)
  \/ CvWorkerPrepared(w)
  \/ CvWorkerWait(w)
  \/ CvWorkerWake(w)
  \/ WorkerLoopCheck(w)
  \/ WorkerExecuteEnd(w)
  \/ CvWorkerHandoff(w)
  \/ CvWorkerEnd(w)

\* is_running_ is true from the construction of the Benchmarker on
CvInit == InitMembers(TRUE) /\ total_exec_num = 0 /\ InitSketches /\ InitConfig

CvNext ==
  \/ CvRunStart
  \/ RunSpawn
  \/ CvRunWaitPrepared
  \/ CvRunLock
  \/ CvRunSetReady
  \/ CvRunNotify
  \/ CvRunWaitFor
  \/ CvRunWaitForTimeout
  \/ CvRunCheck
  \/ RunGet
  \/ CvRunFinish
  \/ \E w \in Threads : CvWorkerCtor(w)
  \/ \E w \in Threads : CvWorkerLock(w)
  \/ \E w \in Threads : CvWorkerPrepared(w)
  \/ \E w \in Threads : CvWorkerWait(w)
  \/ \E w \in Threads : CvSpuriousWakeUp(w)
  \/ \E w \in Threads : CvWorkerWake(w)
  \/ \E w \in Threads : WorkerLoopCheck(w)
  \/ \E w \in Threads : WorkerExecuteEnd(w)
  \/ \E w \in Threads : CvWorkerHandoff(w)
  \/ \E w \in Threads : CvWorkerEnd(w)

\* every thread that can take a step eventually takes one, and a thread
\* that asks for x_mtx_ gets it in the end when it is free again and again;
\* neither a timeout nor a wake-up without a notification is forced to
\* happen
CvSpec ==
  /\ CvInit
  /\ [][CvNext]_vars
  /\ WF_vars(CvController)
  /\ SF_vars(CvRunLock)
  /\ \A w \in Threads :
       WF_vars(CvWorkerStep(w)) /\ SF_vars(CvWorkerLock(w)) /\ SF_vars(CvWorkerWake(w))

(***************************************************************************)
(* The fixed-count runners: every worker executes the operations it was    *)
(* given, total_exec_num_ in all (include/component/worker.hpp); modelled   *)
(* with measure_throughput_ = true                                         *)
(***************************************************************************)
\* one round of the loop that creates the workers: worker spawn_i is given
\* n operations and the next value of the generator
FxSpawn(n) ==
  /\ mpc = "spawn"
  /\ spawn_i < thread_num
  /\ futures' = [futures EXCEPT ![spawn_i] = [valid |-> TRUE, ready |-> FALSE, value |-> NoSketch]]
  /\ wpc' = [wpc EXCEPT ![spawn_i] = "ctor"]
  /\ rand' = NextRand(rand)
  /\ seeds' = [seeds EXCEPT ![spawn_i] = [exec_num |-> n, rand_seed |-> RandValue(rand')]]
  /\ spawn_i' = spawn_i + 1
  /\ mpc' = IF spawn_i + 1 < thread_num THEN "spawn" ELSE "sleep"
  /\ UNCHANGED << thread_num, is_running, ready, worker_cnt, fut_i, status, clock, results, agg,
                  cancel_cnt, late, iter, wsketch, started, completed, samples, saw_stop,
                  set_cnt, setup_calls, teardown_calls, sk, hist, steps, lastOp,
                  measure_throughput, output_as_csv, rand_seed, calls, out, runs, zombies,
                  total_exec_num, mtx, cond, prepare_futures >>

\* std::this_thread::sleep_for(std::chrono::milliseconds(1)): the
\* controller goes on after a while, whatever the workers have done
FxRunSleep ==
  /\ mpc = "sleep"
  /\ mpc' = "slept"
  /\ UNCHANGED << thread_num, is_running, ready, worker_cnt, spawn_i, fut_i, status, clock,
                  futures, results, agg, cancel_cnt, late, wpc, iter, wsketch, started,
                  completed, samples, saw_stop, set_cnt, setup_calls, teardown_calls, sk, hist,
                  steps, lastOp, measure_throughput, output_as_csv, rand_seed, rand, seeds,
                  calls, out, runs, zombies, total_exec_num, mtx, cond, prepare_futures >>

\* results.emplace_back(future.get()) for one future
FxRunGet ==
  /\ mpc = "wait_until"
  /\ futures[fut_i].ready
  /\ results' = Append(results, futures[fut_i].value)
  /\ futures' = [futures EXCEPT ![fut_i] = [valid |-> FALSE, ready |-> FALSE, value |-> NoSketch]]
  /\ fut_i' = fut_i + 1
  /\ mpc' = IF fut_i + 1 < thread_num THEN "wait_until" ELSE "merge"
  /\ UNCHANGED << thread_num, is_running, ready, worker_cnt, spawn_i, status, clock, agg,
                  cancel_cnt, late, wpc, iter, wsketch, started, completed, samples, saw_stop,
                  set_cnt, setup_calls, teardown_calls, sk, hist, steps, lastOp,
                  measure_throughput, output_as_csv, rand_seed, rand, seeds, calls, out, runs,
                  zombies, total_exec_num, mtx, cond, prepare_futures >>

\* the sum of GetTotalExecTime() over the first n results
RECURSIVE TotalExecTime(_, _)
TotalExecTime(res, n) ==
  IF n = 0 THEN 0 ELSE TotalExecTime(res, n - 1) + res[n].total_exec_time_nano_

\* LogThroughput(results): total_exec_num_ over the average time
FxReport(res) ==
  IF measure_throughput
    THEN ThroughputLines([total_exec_num_ |-> total_exec_num,
                          total_exec_time_nano_ |-> TotalExecTime(res, Len(res))],
                         thread_num, output_as_csv, TRUE)
    ELSE Log(output_as_csv, "Percentiled Latency [ns]:")

\* ops_engine_.Generate(exec_num, random_seed) and the new Worker
FxMake(w, pc) ==
  /\ wpc[w] = "make"
  /\ iter' = [iter EXCEPT ![w] = [type_ |-> 0, cnt_ |-> 0, len |-> seeds[w].exec_num]]
  /\ wsketch' = [wsketch EXCEPT ![w] = [total_exec_time_nano_ |-> 0]]
  /\ wpc' = [wpc EXCEPT ![w] = pc]
  /\ UNCHANGED << thread_num, is_running, ready, worker_cnt, mpc, spawn_i, fut_i, status, clock,
                  futures, results, agg, cancel_cnt, late, started, completed, samples,
                  saw_stop, set_cnt, setup_calls, teardown_calls, sk, hist, steps, lastOp,
                  measure_throughput, output_as_csv, rand_seed, rand, seeds, calls, out, runs,
                  zombies, total_exec_num, mtx, cond, prepare_futures >>


\* Worker::MeasureThroughput: the next operation is executed; after the
\* last one the stopwatch is stopped and its reading kept
FxLoop(w) ==
  /\ wpc[w] = "loop"
  /\ IF HasMore(iter[w])
       THEN /\ started' = [started EXCEPT ![w] = @ + 1]
            /\ calls' = [calls EXCEPT ![w] = Append(@, "Execute")]
            /\ wpc' = [wpc EXCEPT ![w] = "exec"]
            /\ UNCHANGED wsketch
       ELSE /\ wsketch' = [wsketch EXCEPT ![w] =
                             [total_exec_time_nano_ |-> ElapsedNano(w, completed[w])]]
            /\ wpc' = [wpc EXCEPT ![w] = "measured"]
            /\ UNCHANGED << started, calls >>
  /\ UNCHANGED << thread_num, is_running, ready, worker_cnt, mpc, spawn_i, fut_i, status, clock,
                  futures, results, agg, cancel_cnt, late, iter, completed, samples, saw_stop,
                  set_cnt, setup_calls, teardown_calls, sk, hist, steps, lastOp,
                  measure_throughput, output_as_csv, rand_seed, rand, seeds, out, runs, zombies,
                  total_exec_num, mtx, cond, prepare_futures >>

\* Target::Execute returns
FxExecuteEnd(w) ==
  /\ wpc[w] = "exec"
  /\ completed' = [completed EXCEPT ![w] = @ + 1]
  /\ iter' = [iter EXCEPT ![w] = Advance(@)]
  /\ wpc' = [wpc EXCEPT ![w] = "loop"]
  /\ UNCHANGED << thread_num, is_running, ready, worker_cnt, mpc, spawn_i, fut_i, status, clock,
                  futures, results, agg, cancel_cnt, late, wsketch, started, samples, saw_stop,
                  set_cnt, setup_calls, teardown_calls, sk, hist, steps, lastOp,
                  measure_throughput, output_as_csv, rand_seed, rand, seeds, calls, out, runs,
                  zombies, total_exec_num, mtx, cond, prepare_futures >>

\* the Benchmarker of the fixed-count runners: any total up to MaxOps
\* operations for each thread
FxInit ==
  /\ InitMembers(TRUE)
  /\ total_exec_num \in 0 .. (MaxOps * MaxThreads)
  /\ InitSketches
  /\ InitConfig

(***************************************************************************)
(* SmSpec: the runner with s_mtx_, x_mtx_ and cond_                        *)
(* (src/include/benchmark/benchmarker.hpp, Run at line 536)                *)
(***************************************************************************)
\* Log, ready_for_benchmarking_ = false, the generator of the seeds
SmRunStart == CvRunStart

\* n = (total_exec_num_ + i) / thread_num_, and the thread of worker i
SmRunSpawn == FxSpawn(ToNat(FloorShare(ToSize(total_exec_num), spawn_i, thread_num)))

\* std::lock_guard s_guard{s_mtx_}, held until Run returns
SmRunLockS ==
  /\ mpc = "slept"
  /\ CanLock("s_mtx_")
  /\ mtx' = [mtx EXCEPT !["s_mtx_"].excl = "main"]
  /\ mpc' = "lock_ready"
  /\ UNCHANGED << thread_num, is_running, ready, worker_cnt, spawn_i, fut_i, status, clock,
                  futures, results, agg, cancel_cnt, late, wpc, iter, wsketch, started,
                  completed, samples, saw_stop, set_cnt, setup_calls, teardown_calls, sk, hist,
                  steps, lastOp, measure_throughput, output_as_csv, rand_seed, rand, seeds,
                  calls, out, runs, zombies, total_exec_num, cond, prepare_futures >>

\* Log("...Finish running."), the report; s_guard goes out of scope
SmRunFinish ==
  /\ mpc = "merge"
  /\ out' = out \o Log(output_as_csv, "...Finish running.") \o FxReport(results)
  /\ mtx' = [mtx EXCEPT !["s_mtx_"].excl = "none"]
  /\ mpc' = "done"
  /\ UNCHANGED << thread_num, is_running, ready, worker_cnt, spawn_i, fut_i, status, clock,
                  futures, results, agg, cancel_cnt, late, wpc, iter, wsketch, started,
                  completed, samples, saw_stop, set_cnt, setup_calls, teardown_calls, sk, hist,
                  steps, lastOp, measure_throughput, output_as_csv, rand_seed, rand, seeds,
                  calls, runs, zombies, total_exec_num, cond, prepare_futures >>

\* std::shared_lock guard{s_mtx_}, the first statement of RunWorker
SmWorkerLockShared(w) ==
  /\ wpc[w] = "ctor"
  /\ CanLockShared("s_mtx_")
  /\ mtx' = [mtx EXCEPT !["s_mtx_"].shared = @ \cup {w}]
  /\ wpc' = [wpc EXCEPT ![w] = "make"]
  /\ UNCHANGED << thread_num, is_running, ready, worker_cnt, mpc, spawn_i, fut_i, status, clock,
                  futures, results, agg, cancel_cnt, late, iter, wsketch, started, completed,
                  samples, saw_stop, set_cnt, setup_calls, teardown_calls, sk, hist, steps,
                  lastOp, measure_throughput, output_as_csv, rand_seed, rand, seeds, calls, out,
                  runs, zombies, total_exec_num, cond, prepare_futures >>

\* the operations are generated and the worker is created
SmWorkerMake(w) == FxMake(w, "lock")

\* std::unique_lock lock{x_mtx_}
SmWorkerLock(w) ==
  /\ wpc[w] = "lock"
  /\ CanLock("x_mtx_")
  /\ mtx' = [mtx EXCEPT !["x_mtx_"].excl = "worker"]
  /\ wpc' = [wpc EXCEPT ![w] = "unlock_s"]
  /\ UNCHANGED << thread_num, is_running, ready, worker_cnt, mpc, spawn_i, fut_i, status, clock,
                  futures, results, agg, cancel_cnt, late, iter, wsketch, started, completed,
                  samples, saw_stop, set_cnt, setup_calls, teardown_calls, sk, hist, steps,
                  lastOp, measure_throughput, output_as_csv, rand_seed, rand, seeds, calls, out,
                  runs, zombies, total_exec_num, cond, prepare_futures >>

\* guard.unlock(), with x_mtx_ held; cond_.wait follows
SmWorkerUnlockS(w) ==
  /\ wpc[w] = "unlock_s"
  /\ mtx' = [mtx EXCEPT !["s_mtx_"].shared = @ \ {w}]
  /\ wpc' = [wpc EXCEPT ![w] = "check"]
  /\ UNCHANGED << thread_num, is_running, ready, worker_cnt, mpc, spawn_i, fut_i, status, clock,
                  futures, results, agg, cancel_cnt, late, iter, wsketch, started, completed,
                  samples, saw_stop, set_cnt, setup_calls, teardown_calls, sk, hist, steps,
                  lastOp, measure_throughput, output_as_csv, rand_seed, rand, seeds, calls, out,
                  runs, zombies, total_exec_num, cond, prepare_futures >>

\* p.set_value_at_thread_exit(worker->MoveMeasurements())
SmWorkerHandoff(w) ==
  /\ wpc[w] = "measured"
  /\ futures' = [futures EXCEPT ![w] = [@ EXCEPT !.value = wsketch[w]]]
  /\ set_cnt' = [set_cnt EXCEPT ![w] = @ + 1]
  /\ wpc' = [wpc EXCEPT ![w] = "dtor"]
  /\ UNCHANGED << thread_num, is_running, ready, worker_cnt, mpc, spawn_i, fut_i, status, clock,
                  results, agg, cancel_cnt, late, iter, wsketch, started, completed, samples,
                  saw_stop, setup_calls, teardown_calls, sk, hist, steps, lastOp,
                  measure_throughput, output_as_csv, rand_seed, rand, seeds, calls, out, runs,
                  zombies, total_exec_num, mtx, cond, prepare_futures >>

\* RunWorker returns, the thread ends and the future becomes ready
SmWorkerEnd(w) ==
  /\ wpc[w] = "dtor"
  /\ futures' = [futures EXCEPT ![w] = [@ EXCEPT !.ready = TRUE]]
  /\ wpc' = [wpc EXCEPT ![w] = "exited"]
  /\ UNCHANGED << thread_num, is_running, ready, worker_cnt, mpc, spawn_i, fut_i, status, clock,
                  results, agg, cancel_cnt, late, iter, wsketch, started, completed, samples,
                  saw_stop, set_cnt, setup_calls, teardown_calls, sk, hist, steps, lastOp,
                  measure_throughput, output_as_csv, rand_seed, rand, seeds, calls, out, runs,
                  zombies, total_exec_num, mtx, cond, prepare_futures >>

SmController ==
  \/ SmRunStart
  \/ SmRunSpawn
  \/ FxRunSleep
  \/ SmRunLockS
  \/ CvRunLock
  \/ CvRunSetReady
  \/ CvRunNotify
  \/ FxRunGet
  \/ SmRunFinish

SmWorkerStep(w) ==
  \/ SmWorkerLockShared(w)
  \/ SmWorkerMake(w)
  \/ SmWorkerLock(w)
  \/ SmWorkerUnlockS(w)
  \/ CvWorkerWait(w)
  \/ CvWorkerWake(w)
  \/ FxLoop(w)
  \/ FxExecuteEnd(w)
  \/ SmWorkerHandoff(w)
  \/ SmWorkerEnd(w)

SmNext ==
  \/ SmRunStart
  \/ SmRunSpawn
  \/ FxRunSleep
  \/ SmRunLockS
  \/ CvRunLock
  \/ CvRunSetReady
  \/ CvRunNotify
  \/ FxRunGet
  \/ SmRunFinish
  \/ \E w \in Threads : SmWorkerLockShared(w)
  \/ \E w \in Threads : SmWorkerMake(w)
  \/ \E w \in Threads : SmWorkerLock(w)
  \/ \E w \in Threads : SmWorkerUnlockS(w)
  \/ \E w \in Threads : CvWorkerWait(w)
  \/ \E w \in Threads : CvSpuriousWakeUp(w)
  \/ \E w \in Threads : CvWorkerWake(w)
  \/ \E w \in Threads : FxLoop(w)
  \/ \E w \in Threads : FxExecuteEnd(w)
  \/ \E w \in Threads : SmWorkerHandoff(w)
  \/ \E w \in Threads : SmWorkerEnd(w)

\* every thread that can take a step eventually takes one, and a thread
\* that asks for a mutex gets it in the end when it is free again and again
SmSpec ==
  /\ FxInit
  /\ [][SmNext]_vars
  /\ WF_vars(SmController)
  /\ SF_vars(SmRunLockS)
  /\ SF_vars(CvRunLock)
  /\ \A w \in Threads :
       /\ WF_vars(SmWorkerStep(w))
       /\ SF_vars(SmWorkerLockShared(w))
       /\ SF_vars(SmWorkerLock(w))
       /\ SF_vars(CvWorkerWake(w))

(***************************************************************************)
(* TmSpec: the runner with mutex_1st_ and mutex_2nd_                       *)
(* (src/include/component/stopwatch.hpp, Run at line 194)                  *)
(***************************************************************************)
\* Log, the exclusive lock of mutex_1st_, the generator of the seeds
TmRunStart ==
  /\ mpc = "start"
  /\ out' = out \o Log(output_as_csv, "...Prepare workers for benchmarking.")
  /\ CanLock("mutex_1st_")
  /\ mtx' = [mtx EXCEPT !["mutex_1st_"].excl = "main"]
  /\ rand' = [seed |-> rand_seed, n |-> 0]
  /\ spawn_i' = 0
  /\ mpc' = "spawn"
  /\ UNCHANGED << thread_num, is_running, ready, worker_cnt, fut_i, status, clock, futures,
                  results, agg, cancel_cnt, late, wpc, iter, wsketch, started, completed,
                  samples, saw_stop, set_cnt, setup_calls, teardown_calls, sk, hist, steps,
                  lastOp, measure_throughput, output_as_csv, rand_seed, seeds, calls, runs,
                  zombies, total_exec_num, cond, prepare_futures >>

\* exec_num = total_exec_num_ / thread_num_, the rest for the last worker,
\* and the thread of worker i
TmRunSpawn == FxSpawn(ToNat(LastTakesRest(ToSize(total_exec_num), spawn_i, thread_num)))

\* const auto guard = std::unique_lock<std::shared_mutex>(mutex_2nd_)
TmRunLock2nd ==
  /\ mpc = "slept"
  /\ CanLock("mutex_2nd_")
  /\ mtx' = [mtx EXCEPT !["mutex_2nd_"].excl = "main"]
  /\ mpc' = "unlock"
  /\ UNCHANGED << thread_num, is_running, ready, worker_cnt, spawn_i, fut_i, status, clock,
                  futures, results, agg, cancel_cnt, late, wpc, iter, wsketch, started,
                  completed, samples, saw_stop, set_cnt, setup_calls, teardown_calls, sk, hist,
                  steps, lastOp, measure_throughput, output_as_csv, rand_seed, rand, seeds,
                  calls, out, runs, zombies, total_exec_num, cond, prepare_futures >>

\* the end of the first block: guard and lock go out of scope
TmRunUnlock ==
  /\ mpc = "unlock"
  /\ mtx' = [mtx EXCEPT !["mutex_2nd_"].excl = "none", !["mutex_1st_"].excl = "none"]
  /\ mpc' = "phase2"
  /\ UNCHANGED << thread_num, is_running, ready, worker_cnt, spawn_i, fut_i, status, clock,
                  futures, results, agg, cancel_cnt, late, wpc, iter, wsketch, started,
                  completed, samples, saw_stop, set_cnt, setup_calls, teardown_calls, sk, hist,
                  steps, lastOp, measure_throughput, output_as_csv, rand_seed, rand, seeds,
                  calls, out, runs, zombies, total_exec_num, cond, prepare_futures >>

\* Log("...Run workers."); the exclusive lock of mutex_2nd_
TmRunLock2ndAgain ==
  /\ mpc = "phase2"
  /\ CanLock("mutex_2nd_")
  /\ mtx' = [mtx EXCEPT !["mutex_2nd_"].excl = "main"]
  /\ out' = out \o Log(output_as_csv, "...Run workers.")
  /\ mpc' = "lock_1st"
  /\ UNCHANGED << thread_num, is_running, ready, worker_cnt, spawn_i, fut_i, status, clock,
                  futures, results, agg, cancel_cnt, late, wpc, iter, wsketch, started,
                  completed, samples, saw_stop, set_cnt, setup_calls, teardown_calls, sk, hist,
                  steps, lastOp, measure_throughput, output_as_csv, rand_seed, rand, seeds,
                  calls, runs, zombies, total_exec_num, cond, prepare_futures >>

\* const auto guard = std::unique_lock<std::shared_mutex>(mutex_1st_)
TmRunLock1st ==
  /\ mpc = "lock_1st"
  /\ CanLock("mutex_1st_")
  /\ mtx' = [mtx EXCEPT !["mutex_1st_"].excl = "main"]
  /\ mpc' = "unlock_again"
  /\ UNCHANGED << thread_num, is_running, ready, worker_cnt, spawn_i, fut_i, status, clock,
                  futures, results, agg, cancel_cnt, late, wpc, iter, wsketch, started,
                  completed, samples, saw_stop, set_cnt, setup_calls, teardown_calls, sk, hist,
                  steps, lastOp, measure_throughput, output_as_csv, rand_seed, rand, seeds,
                  calls, out, runs, zombies, total_exec_num, cond, prepare_futures >>

\* the end of the second block; Log("...Finish running.")
TmRunUnlockAgain ==
  /\ mpc = "unlock_again"
  /\ mtx' = [mtx EXCEPT !["mutex_2nd_"].excl = "none", !["mutex_1st_"].excl = "none"]
  /\ out' = out \o Log(output_as_csv, "...Finish running.")
  /\ fut_i' = 0
  /\ mpc' = "wait_until"
  /\ UNCHANGED << thread_num, is_running, ready, worker_cnt, spawn_i, status, clock, futures,
                  results, agg, cancel_cnt, late, wpc, iter, wsketch, started, completed,
                  samples, saw_stop, set_cnt, setup_calls, teardown_calls, sk, hist, steps,
                  lastOp, measure_throughput, output_as_csv, rand_seed, rand, seeds, calls,
                  runs, zombies, total_exec_num, cond, prepare_futures >>

\* the report, after the futures have been collected
TmRunFinish ==
  /\ mpc = "merge"
  /\ out' = out \o FxReport(results)
  /\ mpc' = "done"
  /\ UNCHANGED << thread_num, is_running, ready, worker_cnt, spawn_i, fut_i, status, clock,
                  futures, results, agg, cancel_cnt, late, wpc, iter, wsketch, started,
                  completed, samples, saw_stop, set_cnt, setup_calls, teardown_calls, sk, hist,
                  steps, lastOp, measure_throughput, output_as_csv, rand_seed, rand, seeds,
                  calls, runs, zombies, total_exec_num, mtx, cond, prepare_futures >>

\* std::shared_lock<std::shared_mutex>(mutex_2nd_), the first statement of
\* RunWorker
TmWorkerLockShared2nd(w) ==
  /\ wpc[w] = "ctor"
  /\ CanLockShared("mutex_2nd_")
  /\ mtx' = [mtx EXCEPT !["mutex_2nd_"].shared = @ \cup {w}]
  /\ wpc' = [wpc EXCEPT ![w] = "make"]
  /\ UNCHANGED << thread_num, is_running, ready, worker_cnt, mpc, spawn_i, fut_i, status, clock,
                  futures, results, agg, cancel_cnt, late, iter, wsketch, started, completed,
                  samples, saw_stop, set_cnt, setup_calls, teardown_calls, sk, hist, steps,
                  lastOp, measure_throughput, output_as_csv, rand_seed, rand, seeds, calls, out,
                  runs, zombies, total_exec_num, cond, prepare_futures >>

\* the operations are generated and the worker is created
TmWorkerMake(w) == FxMake(w, "created")

\* the end of the first block of RunWorker: mutex_2nd_ is released
TmWorkerUnlock2nd(w) ==
  /\ wpc[w] = "created"
  /\ mtx' = [mtx EXCEPT !["mutex_2nd_"].shared = @ \ {w}]
  /\ wpc' = [wpc EXCEPT ![w] = "lock_1st"]
  /\ UNCHANGED << thread_num, is_running, ready, worker_cnt, mpc, spawn_i, fut_i, status, clock,
                  futures, results, agg, cancel_cnt, late, iter, wsketch, started, completed,
                  samples, saw_stop, set_cnt, setup_calls, teardown_calls, sk, hist, steps,
                  lastOp, measure_throughput, output_as_csv, rand_seed, rand, seeds, calls, out,
                  runs, zombies, total_exec_num, cond, prepare_futures >>

\* std::shared_lock<std::shared_mutex>(mutex_1st_); the measurement follows
TmWorkerLockShared1st(w) ==
  /\ wpc[w] = "lock_1st"
  /\ CanLockShared("mutex_1st_")
  /\ mtx' = [mtx EXCEPT !["mutex_1st_"].shared = @ \cup {w}]
  /\ wpc' = [wpc EXCEPT ![w] = "loop"]
  /\ UNCHANGED << thread_num, is_running, ready, worker_cnt, mpc, spawn_i, fut_i, status, clock,
                  futures, results, agg, cancel_cnt, late, iter, wsketch, started, completed,
                  samples, saw_stop, set_cnt, setup_calls, teardown_calls, sk, hist, steps,
                  lastOp, measure_throughput, output_as_csv, rand_seed, rand, seeds, calls, out,
                  runs, zombies, total_exec_num, cond, prepare_futures >>

\* the end of the second block of RunWorker: mutex_1st_ is released
TmWorkerUnlock1st(w) ==
  /\ wpc[w] = "measured"
  /\ mtx' = [mtx EXCEPT !["mutex_1st_"].shared = @ \ {w}]
  /\ wpc' = [wpc EXCEPT ![w] = "handoff"]
  /\ UNCHANGED << thread_num, is_running, ready, worker_cnt, mpc, spawn_i, fut_i, status, clock,
                  futures, results, agg, cancel_cnt, late, iter, wsketch, started, completed,
                  samples, saw_stop, set_cnt, setup_calls, teardown_calls, sk, hist, steps,
                  lastOp, measure_throughput, output_as_csv, rand_seed, rand, seeds, calls, out,
                  runs, zombies, total_exec_num, cond, prepare_futures >>

\* p.set_value(std::move(worker)); the thread ends
TmWorkerHandoff(w) ==
  /\ wpc[w] = "handoff"
  /\ futures' = [futures EXCEPT ![w] = [@ EXCEPT !.ready = TRUE, !.value = wsketch[w]]]
  /\ set_cnt' = [set_cnt EXCEPT ![w] = @ + 1]
  /\ wpc' = [wpc EXCEPT ![w] = "exited"]
  /\ UNCHANGED << thread_num, is_running, ready, worker_cnt, mpc, spawn_i, fut_i, status, clock,
                  results, agg, cancel_cnt, late, iter, wsketch, started, completed, samples,
                  saw_stop, setup_calls, teardown_calls, sk, hist, steps, lastOp,
                  measure_throughput, output_as_csv, rand_seed, rand, seeds, calls, out, runs,
                  zombies, total_exec_num, mtx, cond, prepare_futures >>

TmNext ==
  \/ TmRunStart
  \/ TmRunSpawn
  \/ FxRunSleep
  \/ TmRunLock2nd
  \/ TmRunUnlock
  \/ TmRunLock2ndAgain
  \/ TmRunLock1st
  \/ TmRunUnlockAgain
  \/ FxRunGet
  \/ TmRunFinish
  \/ \E w \in Threads : TmWorkerLockShared2nd(w)
  \/ \E w \in Threads : TmWorkerMake(w)
  \/ \E w \in Threads : TmWorkerUnlock2nd(w)
  \/ \E w \in Threads : TmWorkerLockShared1st(w)
  \/ \E w \in Threads : FxLoop(w)
  \/ \E w \in Threads : FxExecuteEnd(w)
  \/ \E w \in Threads : TmWorkerUnlock1st(w)
  \/ \E w \in Threads : TmWorkerHandoff(w)

TmSpec == FxInit /\ [][TmNext]_vars

(***************************************************************************)
(* ApiSpec: free calls of Add, operator+=, Worker::MoveSketch and          *)
(* Benchmarker::LogThroughput on two sketches of any shape, with latencies *)
(* of the full width of size_t                                             *)
(***************************************************************************)
\* the numbers of kinds the two sketches are constructed with
Shapes == {kTotalNum, kTotalNum + 1}
\* the latencies of ApiSpec: three that fall into the buckets and ~0UL,
\* whose pos is 2218
WideLats == {0, 1, 100, kMaxUInt}
\* what an out-of-range read of a counter can return
Garbage == {0, 1}

\* the sketch has its vectors (it was not moved from)
HasVectors(s) == DOMAIN s.bins_ # {}

\* the process has not been aborted by the last call
Alive == IF lastOp.op = "new" THEN TRUE ELSE lastOp.outcome # "abort"

\* Add(ops_id, cnt, lat) up to line 72: the totals, min_ and max_
AddHead(s, ops_id, cnt, lat) ==
  [ s EXCEPT
      !.total_exec_num_ = PlusU(@, cnt),
      !.total_exec_time_nano_ = PlusU(@, lat),
      !.min_[ops_id] = IF lat < @ THEN lat ELSE @,
      !.max_[ops_id] = IF lat > @ THEN lat ELSE @ ]

\* what Add(ops_id, cnt, lat) leaves behind for an ops_id the sketch has no
\* entry for: the totals are raised; min_[ops_id], max_[ops_id],
\* bins_[ops_id] and exec_nums_[ops_id] are reads and writes past the ends of
\* the vectors, which hit memory outside the sketch, or a build with library
\* assertions aborts at min_[ops_id]; no branch reports an error
AddPastKinds(s, cnt, lat) ==
  LET totals == [s EXCEPT !.total_exec_num_ = PlusU(@, cnt),
                          !.total_exec_time_nano_ = PlusU(@, lat)]
  IN {[outcome |-> "outside", sketch |-> totals], [outcome |-> "abort", sketch |-> totals]}

\* what HasLatency(ops_id) answers: exec_nums_.at(ops_id) throws
\* std::out_of_range for an ops_id the sketch has no entry for
HasLatencyOutcomes(s, ops_id) ==
  IF ops_id \in DOMAIN s.exec_nums_
    THEN {[outcome |-> "returned", value |-> HasLatency(s, ops_id)]}
    ELSE {[outcome |-> "out_of_range"]}

\* what Quantile(ops_id, q) answers: for an ops_id the sketch has no entry
\* for, min_[ops_id], max_[ops_id], exec_nums_[ops_id] and bins_[ops_id] are
\* reads past the ends of the vectors: the answer is made of what the memory
\* holds, or a build with library assertions aborts; no branch reports an
\* error
QuantileOutcomes(s, ops_id, qn, qd) ==
  IF ops_id \in DOMAIN s.bins_
    THEN {[outcome |-> "returned", value |-> Quantile(s, ops_id, qn, qd)]}
    ELSE {[outcome |-> "garbage", value |-> g] : g \in Garbage} \cup {[outcome |-> "abort"]}

\* what Add(ops_id, cnt, lat) can leave behind. pos < kBinNum: the sketch of
\* Add. pos >= kBinNum: ++bins_[ops_id][pos] is a write past the end of the
\* std::array; it hits the counter pos - kBinNum of the next kind, which
\* follows in the buffer of the vector, or memory outside the sketch when
\* ops_id is the last kind, or a build with library assertions aborts.
AddOutcomes(s, ops_id, cnt, lat) ==
  IF ops_id \notin DOMAIN s.bins_ THEN AddPastKinds(s, cnt, lat)
  ELSE
  LET pos == BinPos(lat)
      head == AddHead(s, ops_id, cnt, lat)
      counted == [head EXCEPT !.exec_nums_[ops_id] = @ + 1]
  IN IF pos < kBinNum
       THEN {[outcome |-> "ok", sketch |-> Add(s, ops_id, cnt, lat)]}
       ELSE {[outcome |-> "abort", sketch |-> head]}
            \cup (IF ops_id + 1 \in DOMAIN s.bins_
                    THEN {[outcome |-> "neighbour",
                           sketch |-> [counted EXCEPT
                                         !.bins_[ops_id + 1] = @ (+) SetToBag({pos - kBinNum})]]}
                    ELSE {[outcome |-> "outside", sketch |-> counted]})

\* rhs as operator+= reads it for the kinds 0 .. n - 1: the entries rhs has,
\* and for a kind past the end of its vectors whatever the memory holds
ReadsOf(rhs, n) ==
  { [rhs EXCEPT
       !.exec_nums_ = [k \in 0 .. (n - 1) |->
                         IF k \in DOMAIN rhs.exec_nums_ THEN rhs.exec_nums_[k] ELSE g],
       !.bins_ = [k \in 0 .. (n - 1) |->
                    IF k \in DOMAIN rhs.bins_ THEN rhs.bins_[k]
                    ELSE IF b = 0 THEN EmptyBag ELSE SetToBag({0})]] : g \in Garbage, b \in Garbage }

\* what s += rhs can leave behind. rhs has the kinds of s (or more, which are
\* not looked at): the sketch of Merge. rhs has fewer kinds: the loop over
\* bins_.size() reads rhs.exec_nums_ and rhs.bins_ past their ends and adds
\* what it finds, or a build with library assertions aborts at the first
\* such read; no branch reports an error.
MergeOutcomes(s, rhs) ==
  LET n == Cardinality(DOMAIN s.bins_)
      m == Cardinality(DOMAIN rhs.bins_)
  IN IF m >= n
       THEN {[outcome |-> "ok", sketch |-> Merge(s, rhs)]}
       ELSE {[outcome |-> "garbage", sketch |-> Merge(s, r)] : r \in ReadsOf(rhs, n)}
            \cup {[outcome |-> "abort",
                   sketch |-> [Merge(s, CHOOSE r \in ReadsOf(rhs, n) : TRUE) EXCEPT
                                 !.exec_nums_ = [k \in DOMAIN s.bins_ |->
                                                   IF k < m THEN @[k] ELSE s.exec_nums_[k]],
                                 !.bins_ = [k \in DOMAIN s.bins_ |->
                                              IF k < m THEN @[k] ELSE s.bins_[k]]]]}

\* Worker::MoveSketch(): the sketch is moved out of sketch_, which keeps the
\* totals and is left with empty vectors; nothing tells a first call from a
\* later one
MoveSketch(s) == [value |-> s, sketch_ |-> MovedFrom(s)]

ApiInit ==
  /\ InitRunner
  /\ InitConfig
  /\ sk \in [SketchIds -> {NewSketch(n) : n \in Shapes}]
  /\ hist = [i \in SketchIds |-> EmptyBag]
  /\ steps = 0
  /\ lastOp = [op |-> "new"]

\* sk[i].Add(ops_id, 1, lat), one executed operation of latency lat
ApiAdd(i, ops_id, lat) ==
  /\ steps < MaxCalls
  /\ Alive
  /\ \E o \in AddOutcomes(sk[i], ops_id, 1, lat) :
       /\ sk' = [sk EXCEPT ![i] = o.sketch]
       /\ lastOp' = [op |-> "add", lhs |-> i, ops_id |-> ops_id, cnt |-> 1, lat |-> lat,
                     outcome |-> o.outcome]
  /\ steps' = steps + 1
  /\ UNCHANGED << xvars, rvars, cvars, hist >>

\* sk[i] += sk[j]
ApiMerge(i, j) ==
  /\ steps < MaxCalls
  /\ Alive
  /\ i # j
  /\ HasVectors(sk[i])
  /\ HasVectors(sk[j])
  /\ \E o \in MergeOutcomes(sk[i], sk[j]) :
       /\ sk' = [sk EXCEPT ![i] = o.sketch]
       /\ lastOp' = [op |-> "merge", lhs |-> i, rhs |-> j, outcome |-> o.outcome]
  /\ steps' = steps + 1
  /\ UNCHANGED << xvars, rvars, cvars, hist >>

\* MoveSketch() of the worker that owns sk[i]
ApiMoveSketch(i) ==
  /\ steps < MaxCalls
  /\ Alive
  /\ sk' = [sk EXCEPT ![i] = MoveSketch(sk[i]).sketch_]
  /\ lastOp' = [op |-> "move", lhs |-> i, value |-> MoveSketch(sk[i]).value,
                nth |-> IF HasVectors(sk[i]) THEN 1 ELSE 2, outcome |-> "returned"]
  /\ steps' = steps + 1
  /\ UNCHANGED << xvars, rvars, cvars, hist >>

\* LogThroughput(sk[i]) of a Benchmarker of thread_num_ threads
ApiLogThroughput(i, csv, mt) ==
  /\ steps < MaxCalls
  /\ Alive
  /\ lastOp' = [op |-> "log", lhs |-> i, outcome |-> "returned",
                out |-> LogThroughput(sk[i], thread_num, csv, mt)]
  /\ steps' = steps + 1
  /\ UNCHANGED << xvars, rvars, cvars, hist, sk >>

\* sk[i].HasLatency(ops_id)
ApiHasLatency(i, ops_id) ==
  /\ steps < MaxCalls
  /\ Alive
  /\ \E o \in HasLatencyOutcomes(sk[i], ops_id) :
       lastOp' = [op |-> "has", lhs |-> i, ops_id |-> ops_id] @@ o
  /\ steps' = steps + 1
  /\ UNCHANGED << xvars, rvars, cvars, hist, sk >>

\* sk[i].Quantile(ops_id, qn / qd)
ApiQuantile(i, ops_id, qn, qd) ==
  /\ steps < MaxCalls
  /\ Alive
  /\ \E o \in QuantileOutcomes(sk[i], ops_id, qn, qd) :
       lastOp' = [op |-> "quantile", lhs |-> i, ops_id |-> ops_id, qn |-> qn, qd |-> qd] @@ o
  /\ steps' = steps + 1
  /\ UNCHANGED << xvars, rvars, cvars, hist, sk >>

\* the ops_id of the calls: the kinds 0 .. kTotalNum of the larger shape and
\* kTotalNum + 1, which no sketch has
ApiKinds == 0 .. (kTotalNum + 1)

ApiAddAny == \E i \in SketchIds, k \in ApiKinds, l \in WideLats : ApiAdd(i, k, l)
ApiHasLatencyAny == \E i \in SketchIds, k \in ApiKinds : ApiHasLatency(i, k)
ApiQuantileAny == \E i \in SketchIds, k \in ApiKinds, n \in 0 .. 2 : ApiQuantile(i, k, n, 2)
ApiMergeAny == \E i, j \in SketchIds : ApiMerge(i, j)
ApiMoveSketchAny == \E i \in SketchIds : ApiMoveSketch(i)
ApiLogThroughputAny ==
  \E i \in SketchIds, csv \in BOOLEAN, mt \in BOOLEAN : ApiLogThroughput(i, csv, mt)

ApiNext ==
  \/ ApiAddAny
  \/ ApiMergeAny
  \/ ApiMoveSketchAny
  \/ ApiLogThroughputAny
  \/ ApiHasLatencyAny
  \/ ApiQuantileAny

ApiSpec == ApiInit /\ [][ApiNext]_vars

(***************************************************************************)
(* SplitSpec: the per-worker execution counts of the fixed-count runners,  *)
(* for small totals and for totals at the upper end of size_t              *)
(***************************************************************************)
Totals ==
  {ToSize(n) : n \in 0 .. MaxTotal} \cup {SubSize(kSizeMax, ToSize(k)) : k \in 0 .. MaxThreads}

SplitThreads == 1 .. (MaxThreads + 1)

Schemes == {"floor", "last"}

\* the counts the loop that creates the workers hands out, worker 0 first
Split(scheme, total, threads) ==
  /\ steps < MaxCalls
  /\ steps' = steps + 1
  /\ lastOp' = [ op |-> "split", scheme |-> scheme, total |-> total, threads |-> threads,
                 counts |-> [ j \in 1 .. threads |->
                                IF scheme = "floor" THEN FloorShare(total, j - 1, threads)
                                ELSE LastTakesRest(total, j - 1, threads) ] ]
  /\ UNCHANGED << thread_num, is_running, ready, worker_cnt, mpc, spawn_i, fut_i, status, clock,
                  futures, results, agg, cancel_cnt, late, wpc, iter, wsketch, started,
                  completed, samples, saw_stop, set_cnt, setup_calls, teardown_calls, sk, hist,
                  measure_throughput, output_as_csv, rand_seed, rand, seeds, calls, out, runs,
                  zombies, total_exec_num, mtx, cond, prepare_futures >>

SplitAny == \E scheme \in Schemes, total \in Totals, threads \in SplitThreads :
              Split(scheme, total, threads)

SplitSpec == SketchInit /\ [][SplitAny]_vars

(***************************************************************************)
(* ValidateSpec: ValidateStr2UInt, the validator of the seed flag, called  *)
(* on strings of the characters below                                      *)
(***************************************************************************)
\* the characters of the model: two digits, a letter, the signs, a space
Chars == {"1", "9", "a", "-", "+", " "}

\* every string of at most n characters
RECURSIVE StringsUpTo(_)
StringsUpTo(n) ==
  IF n = 0 THEN {<< >>}
  ELSE LET shorter == StringsUpTo(n - 1)
       IN shorter \cup {Append(s, c) : s \in shorter, c \in Chars}

\* twenty nines, a number no unsigned long holds; the same after a minus
\* sign and before a letter
TwentyNines == [j \in 1 .. 20 |-> "9"]
LongStrings == {TwentyNines, << "-" >> \o TwentyNines, TwentyNines \o << "a" >>}

\* the strings ValidateStr2UInt is called with
Strings == StringsUpTo(MaxStrLen) \cup LongStrings

IsSpace(c) == c = " "
IsDigit(c) == c \in {"1", "9"}
DigitVal(c) == IF c = "1" THEN 1 ELSE 9

\* strtoul skips leading white space
RECURSIVE SkipSpace(_)
SkipSpace(s) == IF s # << >> /\ IsSpace(Head(s)) THEN SkipSpace(Tail(s)) ELSE s

\* strtoul reads digits while there are any; a value above ULONG_MAX is an
\* overflow (ERANGE).  What follows the digits is left unread.
RECURSIVE ReadDigits(_, _, _, _)
ReadDigits(s, acc, n, overflow) ==
  IF s = << >> \/ ~IsDigit(Head(s)) THEN [value |-> acc, digits |-> n, overflow |-> overflow]
  ELSE LET d == DigitVal(Head(s))
       IN IF overflow \/ acc > (kMaxUInt - d) \div 10
            THEN ReadDigits(Tail(s), acc, n + 1, TRUE)
            ELSE ReadDigits(Tail(s), 10 * acc + d, n + 1, FALSE)

\* std::stoul(str): white space, an optional sign, digits in base 10;
\* std::invalid_argument if there is no digit, std::out_of_range on
\* overflow, else the value, negated as an unsigned long after a minus sign
StoUL(str) ==
  LET s == SkipSpace(str)
      signed == s # << >> /\ Head(s) \in {"-", "+"}
      r == ReadDigits(IF signed THEN Tail(s) ELSE s, 0, 0, FALSE)
  IN IF r.digits = 0 THEN [is |-> "invalid_argument"]
     ELSE IF r.overflow THEN [is |-> "out_of_range"]
     ELSE [is |-> "value",
           value |-> IF signed /\ Head(s) = "-" /\ r.value > 0
                       THEN kMaxUInt - r.value + 1 ELSE r.value]

\* ValidateStr2UInt(flagname, str): "true" or "false" when it returns;
\* std::out_of_range is not caught and leaves the function ("throws")
ValidateStr2UInt(str) ==
  IF str = << >> THEN "true"
  ELSE LET r == StoUL(str)
       IN IF r.is = "invalid_argument" THEN "false"
          ELSE IF r.is = "out_of_range" THEN "throws"
          ELSE "true"

\* one call of the validator
Validate(str) ==
  /\ steps < MaxCalls
  /\ lastOp' = [op |-> "validate", str |-> str, outcome |-> ValidateStr2UInt(str)]
  /\ steps' = steps + 1
  /\ UNCHANGED << xvars, rvars, cvars, hist, sk >>

ValidateAny == \E str \in Strings : Validate(str)

ValidateSpec == SketchInit /\ [][ValidateAny]_vars

(***************************************************************************)
(* Properties of SimpleDDSketch, checked under SketchSpec                  *)
(***************************************************************************)
\* the sketch reached from s by adding every sample (ops_id, cnt, lat) of
\* the bag B
RECURSIVE AddAll(_, _)
AddAll(s, B) ==
  IF DOMAIN B = {} THEN s
  ELSE LET x == CHOOSE y \in DOMAIN B : TRUE
       IN AddAll(Add(s, x[1], x[2], x[3]), B (-) SetToBag({x}))

\* C7: for every sketch reached by Add and operator+= calls and every kind,
\* the bucket counters of the kind add up to exec_nums_ of the kind.
C7_BucketSum ==
  \A i \in SketchIds, k \in Kinds : BagCardinality(sk[i].bins_[k]) = sk[i].exec_nums_[k]

\* a sketch that holds samples of its own and merged ones, one of them added
\* with cnt = 2
C7_Witness ==
  /\ lastOp.op = "merge"
  /\ sk[lastOp.lhs].exec_nums_[0] = 2
  /\ sk[lastOp.lhs].total_exec_num_ = 3
  /\ sk[lastOp.rhs].exec_nums_[0] = 1

\* C8: for every sketch reached by Add and operator+= calls and every kind
\* with exec_nums_ > 0, min_ <= max_.
C8_MinLeMax ==
  \A i \in SketchIds, k \in Kinds : sk[i].exec_nums_[k] > 0 => sk[i].min_[k] <= sk[i].max_[k]

\* C9: after s1 += s2, Quantile(k, 1.0) of s1 is the larger of the two max_[k]
\* and Quantile(k, 0.0) the smaller of the two min_[k], taken before the merge.
C9_MergeExtremes ==
  [][ lastOp'.op = "merge" =>
        \A k \in Kinds :
          /\ Quantile(sk'[lastOp'.lhs], k, 1, 1)
               = Max2(sk[lastOp'.lhs].max_[k], sk[lastOp'.rhs].max_[k])
          /\ Quantile(sk'[lastOp'.lhs], k, 0, 1)
               = Min2(sk[lastOp'.lhs].min_[k], sk[lastOp'.rhs].min_[k]) ]_vars

\* C10: a sketch that stands for the samples added to it and to the sketches
\* merged into it equals the sketch to which all these samples were added.
C10_MergeIsUnion ==
  \A i \in SketchIds : sk[i] = AddAll(NewSketch(kTotalNum), hist[i])


\* what a caller can read from a sketch: the totals, the per-kind counts, the
\* buckets and Quantile for q = 0, q = 0.5 and q = 1
Observables(s) ==
  [ total_exec_num |-> s.total_exec_num_,
    total_exec_time_nano |-> s.total_exec_time_nano_,
    exec_nums |-> s.exec_nums_,
    bins |-> s.bins_,
    q_zero |-> [k \in DOMAIN s.bins_ |-> Quantile(s, k, 0, 1)],
    q_half |-> [k \in DOMAIN s.bins_ |-> Quantile(s, k, 1, 2)],
    q_one |-> [k \in DOMAIN s.bins_ |-> Quantile(s, k, 1, 1)] ]

\* C11: operator+= is commutative and associative on the observables: for
\* the sketches a, b, c reached by Add and operator+= calls, a += b and
\* b += a agree, and (a += b) += c and a += (b += c) agree, in the totals,
\* the per-kind counts, the buckets and Quantile for q = 0, 0.5 and 1.
C11_MergeCommAssoc ==
  \A a, b, c \in {sk[i] : i \in SketchIds} :
    /\ Observables(Merge(a, b)) = Observables(Merge(b, a))
    /\ Observables(Merge(Merge(a, b), c)) = Observables(Merge(a, Merge(b, c)))

\* C12: for every sketch s reached by Add and operator+= calls and a newly
\* constructed sketch z of the same number of kinds, s += z leaves s as it
\* was: the totals, exec_nums_, the buckets, min_, max_ and every Quantile
\* answer; this holds for the operator applied to any reached sketch and for
\* every += step whose right operand is a new sketch.
C12_MergeIdentity ==
  [][ /\ \A i \in SketchIds : Merge(sk'[i], NewSketch(kTotalNum)) = sk'[i]
      /\ (lastOp'.op = "merge" /\ steps' # steps /\ sk[lastOp'.rhs] = NewSketch(kTotalNum)) =>
           /\ sk'[lastOp'.lhs] = sk[lastOp'.lhs]
           /\ Observables(sk'[lastOp'.lhs]) = Observables(sk[lastOp'.lhs]) ]_vars

\* a new sketch has just been merged into a sketch that holds samples of two
\* different latencies
C12_Witness ==
  /\ lastOp.op = "merge"
  /\ sk[lastOp.rhs] = NewSketch(kTotalNum)
  /\ sk[lastOp.lhs].exec_nums_[0] = 2
  /\ sk[lastOp.lhs].min_[0] < sk[lastOp.lhs].max_[0]


\* C15: s.Add(kind, cnt, lat), for a latency whose bucket index is below
\* kBinNum, raises total_exec_num_ by cnt and total_exec_time_nano_ by lat,
\* raises exec_nums_[kind] and exactly one bucket of kind by one (not by
\* cnt), changes min_[kind] only to lat and only if lat is below it and
\* max_[kind] only to lat and only if lat is above it, and leaves exec_nums_,
\* buckets, min_ and max_ of every other kind, and the other sketch, as they
\* were.
C15_AddFrame ==
  [][ (lastOp'.op = "add" /\ steps' # steps) =>
        LET i == lastOp'.lhs
            kind == lastOp'.ops_id
            cnt == lastOp'.cnt
            lat == lastOp'.lat
            s == sk[i]
            t == sk'[i]
        IN /\ t.total_exec_num_ = s.total_exec_num_ + cnt
           /\ t.total_exec_time_nano_ = s.total_exec_time_nano_ + lat
           /\ t.exec_nums_[kind] = s.exec_nums_[kind] + 1
           /\ LET changed == {b \in BagToSet(t.bins_[kind]) \cup BagToSet(s.bins_[kind]) :
                                 CopiesIn(b, t.bins_[kind]) # CopiesIn(b, s.bins_[kind])}
              IN /\ Cardinality(changed) = 1
                 /\ \A b \in changed :
                      /\ b \in 0 .. (kBinNum - 1)
                      /\ CopiesIn(b, t.bins_[kind]) = CopiesIn(b, s.bins_[kind]) + 1
           /\ t.min_[kind] = (IF lat < s.min_[kind] THEN lat ELSE s.min_[kind])
           /\ t.max_[kind] = (IF lat > s.max_[kind] THEN lat ELSE s.max_[kind])
           /\ \A k \in Kinds \ {kind} :
                /\ t.exec_nums_[k] = s.exec_nums_[k]
                /\ t.bins_[k] = s.bins_[k]
                /\ t.min_[k] = s.min_[k]
                /\ t.max_[k] = s.max_[k]
           /\ DOMAIN t.bins_ = Kinds
           /\ \A j \in SketchIds \ {i} : sk'[j] = sk[j] ]_vars

\* Add was called with cnt = 2 and a latency inside the range of its kind,
\* which holds three samples now
C15_Witness ==
  /\ lastOp.op = "add"
  /\ lastOp.cnt = 2
  /\ sk[lastOp.lhs].min_[lastOp.ops_id] < lastOp.lat
  /\ lastOp.lat < sk[lastOp.lhs].max_[lastOp.ops_id]
  /\ sk[lastOp.lhs].exec_nums_[lastOp.ops_id] = 3

\* C16: for every sketch reached by Add and operator+= calls, every kind
\* that holds a sample and all q1 < q2 among 0, 0.25, 0.5, 0.75 and 1,
\* Quantile(k, q1) <= Quantile(k, q2); the pairs with q1 = 0 (min_) and with
\* q2 = 1 (max_) are among them.
C16_QuantileMonotone ==
  \A i \in SketchIds, k \in Kinds :
    sk[i].exec_nums_[k] > 0 =>
      \A n1, n2 \in 0 .. 4 :
        n1 < n2 => Quantile(sk[i], k, n1, 4) <= Quantile(sk[i], k, n2, 4)

\* the number of samples in the buckets 0 .. b of a kind
RunningCount(bins, b) == BagCardinality([c \in {x \in DOMAIN bins : x <= b} |-> bins[c]])

\* C17: for every sketch reached by Add and operator+= calls, every kind
\* with exec_nums_ >= 1 and q among 0.25, 0.5 and 0.75, Quantile answers
\* with the value of the first bucket whose running count, taken from bucket
\* 0 on, exceeds bound = floor(q * (exec_nums_ - 1)): the running count up
\* to that bucket exceeds bound and the one up to the bucket before it does
\* not; the bucket holds a sample and its index is at most kBinNum - 1.
C17_InteriorQuantile ==
  \A i \in SketchIds, k \in Kinds :
    sk[i].exec_nums_[k] >= 1 =>
      \A n \in 1 .. 3 :
        LET bins == sk[i].bins_[k]
            bound == (n * (sk[i].exec_nums_[k] - 1)) \div 4
            walked == QuantileWalk(bins, 0, CopiesIn(0, bins), bound)
        IN /\ walked \in 0 .. (kBinNum - 1)
           /\ RunningCount(bins, walked) > bound
           /\ walked > 0 => RunningCount(bins, walked - 1) <= bound
           /\ CopiesIn(walked, bins) >= 1
           /\ Quantile(sk[i], k, n, 4) = BinValue(walked)

\* a kind holds one sample in each of three buckets; the quantile for 0.25
\* is the value of the first and the quantile for 0.5 that of the second
C17_Witness ==
  \E i \in SketchIds :
    /\ sk[i].exec_nums_[0] = 3
    /\ BagToSet(sk[i].bins_[0]) = {0, 55, 231}
    /\ Quantile(sk[i], 0, 1, 4) = 0
    /\ Quantile(sk[i], 0, 1, 2) = 2

\* the latencies of the samples of kind k a sketch stands for
LatsOfKind(i, k) == {s[3] : s \in {x \in DOMAIN hist[i] : x[1] = k}}

\* C30: the relative-error bound of the sketch.  For a kind that holds one
\* sample, of latency l >= 1, the answer of Quantile for q = 0.5, which is
\* the value of the bucket l fell into, differs from l by at most 2% of l.
C30_RelativeError ==
  \A i \in SketchIds, k \in Kinds :
    sk[i].exec_nums_[k] = 1 =>
      \A l \in LatsOfKind(i, k) :
        l >= 1 =>
          LET v == Quantile(sk[i], k, 1, 2)
          IN (IF v > l THEN v - l ELSE l - v) * 100 <= 2 * l

(***************************************************************************)
(* Properties of the calls of ApiSpec                                      *)
(***************************************************************************)
\* C13: s += rhs for two sketches with different numbers of kinds fails with
\* a ShapeMismatch error and leaves s as it was: no per-kind entry is read
\* or written that one of the two sketches does not have.
C13_ShapeMismatch ==
  [][ ( /\ lastOp'.op = "merge"
        /\ steps' # steps
        /\ DOMAIN sk[lastOp'.lhs].bins_ # DOMAIN sk[lastOp'.rhs].bins_ ) =>
        /\ lastOp'.outcome = "ShapeMismatch"
        /\ sk' = sk ]_vars

\* C14: for every latency Add can receive, ~0UL included, the bucket that Add
\* increments has an index in 0 .. kBinNum - 1, namely pos clamped to
\* kBinNum - 1, and no counter outside bins_[ops_id] is written.
C14_BucketIndexInRange ==
  [][ (lastOp'.op = "add" /\ steps' # steps) =>
        LET i == lastOp'.lhs
            k == lastOp'.ops_id
            pos == BinPos(lastOp'.lat)
            clamped == IF pos > kBinNum - 1 THEN kBinNum - 1 ELSE pos
        IN /\ lastOp'.outcome = "ok"
           /\ sk'[i].bins_ = [sk[i].bins_ EXCEPT ![k] = @ (+) SetToBag({clamped})] ]_vars

\* C19: when LogThroughput prints and the averaged time
\* total_exec_time_nano_ / thread_num_ is 0, what it prints is the number 0,
\* not the outcome of a division by zero.
C19_ThroughputGuard ==
  [][ ( /\ lastOp'.op = "log"
        /\ steps' # steps
        /\ lastOp'.out.is # "nothing"
        /\ sk[lastOp'.lhs].total_exec_time_nano_ \div thread_num = 0 ) =>
        /\ lastOp'.out.is = "quotient"
        /\ lastOp'.out.exec_num = 0 ]_vars

\* C20: the first MoveSketch call on a worker yields the sketch of the
\* worker; a later call on the same worker is reported as a
\* ProgrammingError and yields no sketch.
C20_DoubleHandoffIsError ==
  [][ (lastOp'.op = "move" /\ steps' # steps) =>
        IF HasVectors(sk[lastOp'.lhs])
          THEN /\ lastOp'.outcome = "returned"
               /\ lastOp'.value = sk[lastOp'.lhs]
          ELSE /\ lastOp'.outcome = "ProgrammingError"
               /\ sk' = sk ]_vars

\* C21: Add, HasLatency and Quantile called with an ops_id the sketch has no
\* entry for (ops_id >= the number of kinds it was built with) each report
\* the error (a ProgrammingError, or the std::out_of_range of a checked
\* access) and leave the sketch as it was.
C21_KindOutOfRange ==
  [][ ( /\ lastOp'.op \in {"add", "has", "quantile"}
        /\ steps' # steps
        /\ lastOp'.ops_id \notin DOMAIN sk[lastOp'.lhs].bins_ ) =>
        /\ lastOp'.outcome \in {"ProgrammingError", "out_of_range"}
        /\ sk' = sk ]_vars

(***************************************************************************)
(* Properties of the measurement and of the report, checked under          *)
(* MeasureSpec                                                             *)
(***************************************************************************)
\* the positions of the samples of kind k among the samples of worker w
SamplesOfKind(w, k) == {j \in 1 .. Len(samples[w]) : samples[w][j][1] = k}

\* worker w has left the measurement loop because its iterator ran out
MeasuredAll(w) ==
  /\ wpc[w] = "handoff"
  /\ ~saw_stop[w]
  /\ completed[w] = iter[w].len

RECURSIVE SketchOf(_, _, _)
SketchOf(s, smp, j) ==
  IF j > Len(smp) THEN s
  ELSE SketchOf(Add(s, smp[j][1], smp[j][2], smp[j][3]), smp, j + 1)

PrintsThroughput == \E j \in 1 .. Len(out) : out[j].line = "throughput"

\* a line of the percentile latency, or the header of its table, has been
\* written
PrintsLatency ==
  \E j \in 1 .. Len(out) :
    \/ out[j].line = "latency"
    \/ out[j].line = "text" /\ out[j].text = "Percentile Latency [ns]:"

\* C28: the throughput flag selects the report.  In both output formats, a
\* Run with measure_throughput_ has printed the throughput and nothing of
\* the percentile latency when it returns, and a Run without it has
\* printed the percentile latency of the kinds with samples and no
\* throughput.
C28_FlagSelectsReport ==
  mpc = "done" =>
    IF measure_throughput
      THEN PrintsThroughput /\ ~PrintsLatency
      ELSE /\ ~PrintsThroughput
           /\ (\E k \in Kinds : HasLatency(agg, k)) => PrintsLatency

\* Run has returned from a Benchmarker that writes its latency as CSV
CsvLatencyDone == mpc = "done" /\ output_as_csv /\ ~measure_throughput

\* out holds, for the kinds ks in increasing id, one line "<id>,<q>,<ns>"
\* per quantile of target_latency_ in its order, and nothing else
CsvLinesOf(ks) ==
  LET n == Len(target_latency)
  IN /\ Len(out) = Cardinality(ks) * n
     /\ \A k \in ks : \A i \in 1 .. n :
          LET l == out[Cardinality({x \in ks : x < k}) * n + i]
          IN /\ l.line = "latency"
             /\ l.csv
             /\ l.id = k
             /\ l.q = target_latency[i]

\* C29 as stated: with output_as_csv_ and without measure_throughput_, the
\* lines Run has written are exactly one line "<id>,<q>,<ns>" per pair of a
\* kind and a quantile, kinds in increasing id and quantiles in the order
\* of target_latency_, and no other line.
C29_CsvLineForEveryKind == CsvLatencyDone => CsvLinesOf(Kinds)

\* C29, amended: with output_as_csv_ and without measure_throughput_, Run
\* writes nothing before its report, and the lines it has written when it
\* returns are exactly one line "<id>,<q>,<ns>" per pair of a kind that has
\* samples and a quantile, with ns = Quantile(id, q), kinds in increasing
\* id and quantiles in the order of target_latency_, and no other line.
C29_CsvLatencyLines ==
  /\ (output_as_csv /\ ~measure_throughput /\ mpc # "done") => out = << >>
  /\ CsvLatencyDone =>
       LET ks == {k \in Kinds : HasLatency(agg, k)}
           n == Len(target_latency)
       IN /\ CsvLinesOf(ks)
          /\ \A k \in ks : \A i \in 1 .. n :
               out[Cardinality({x \in ks : x < k}) * n + i].ns =
                 Quantile(agg, k, target_latency[i][1], target_latency[i][2])

\* two kinds with samples and two quantiles: four lines
C29_Witness ==
  /\ CsvLatencyDone
  /\ \A k \in Kinds : HasLatency(agg, k)
  /\ Len(out) = 4

(***************************************************************************)
(* Properties of Run and its workers, checked under Spec and FairSpec      *)
(***************************************************************************)
\* the samples of the workers 0 .. n - 1, one worker after the other
RECURSIVE SamplesUpTo(_)
SamplesUpTo(n) == IF n = 0 THEN << >> ELSE SamplesUpTo(n - 1) \o samples[n - 1]

\* the sum of the cnt (j = 2) or of the lat (j = 3) of a sequence of samples
RECURSIVE SumField(_, _)
SumField(seq, j) == IF seq = << >> THEN 0 ELSE Head(seq)[j] + SumField(Tail(seq), j)

\* the bag of the bins the samples of kind k fall into
RECURSIVE BinsOf(_, _)
BinsOf(seq, k) ==
  IF seq = << >> THEN EmptyBag
  ELSE IF Head(seq)[1] = k THEN SetToBag({BinPos(Head(seq)[3])}) (+) BinsOf(Tail(seq), k)
  ELSE BinsOf(Tail(seq), k)

\* the sketch of a worker holds exactly the samples seq
HoldsSamples(s, seq) ==
  /\ s.total_exec_num_ = SumField(seq, 2)
  /\ s.total_exec_time_nano_ = SumField(seq, 3)
  /\ \A k \in Kinds :
       /\ s.bins_[k] = BinsOf(seq, k)
       /\ s.exec_nums_[k] = BagCardinality(BinsOf(seq, k))

\* the number of samples a sketch holds
SampleCount(s) ==
  IF DOMAIN s.exec_nums_ = {} THEN 0
  ELSE SumField([k \in 1 .. kTotalNum |-> << 0, s.exec_nums_[k - 1] >>], 2)

\* the worker has been constructed: SetUpForWorker is done and
\* worker_cnt_ counts it
Constructed(w) == wpc[w] \notin {"unborn", "ctor", "count"} /\ setup_calls[w] = 1

\* C1: no worker calls Target::Execute before every worker of the Run has
\* been constructed (SetUpForWorker done, worker_cnt_ incremented) and the
\* controller has stored true into the ready flag.
C1_StartBarrier ==
  \A w \in Threads :
    started[w] > 0 =>
      /\ ready
      /\ worker_cnt = thread_num
      /\ \A v \in Workers : Constructed(v)

\* a worker is inside its first Execute while another one still spins
C1_Witness ==
  /\ thread_num >= 2
  /\ wpc[0] = "exec"
  /\ started[0] = 1
  /\ wpc[1] = "spin"

\* C2: when Run returns every worker thread has ended (TearDownForWorker
\* called), and the controller holds a worker's sketch only when that
\* worker has ended.
C2_WorkersEndInsideRun ==
  /\ mpc = "done" => \A w \in Workers : wpc[w] = "exited" /\ teardown_calls[w] = 1
  /\ \A w \in Workers : w < Len(results) => wpc[w] = "exited"

\* C3: with finite iterators and Execute calls that return, Run returns in
\* the end, for one and for several workers, with and without a timeout.
C3_RunTerminates == <>(mpc = "done")

\* Run has returned for several workers after the timeout fired
C3_Witness ==
  /\ mpc = "done"
  /\ thread_num >= 2
  /\ cancel_cnt = 1
  /\ \E w \in Workers : saw_stop[w]

\* C4: Run stores false into is_running_ only when a future was not ready
\* at the deadline and is_running_ still holds, and then it does; after the
\* store it goes on to future.get() and no later wait has a deadline ahead;
\* it collects every future before it merges; false is stored at most once,
\* and never when all futures were ready by the deadline.
C4_TimeoutCancel ==
  [][ /\ (is_running /\ ~is_running') =>
           /\ mpc = "check" /\ status = "timeout" /\ clock = "after"
           /\ mpc' = "get"
      /\ (mpc = "check" /\ mpc' # mpc /\ status = "timeout" /\ is_running) =>
           (~is_running' /\ mpc' = "get")
      /\ cancel_cnt' <= 1
      /\ cancel_cnt' = 1 => (clock' = "after" /\ late' # {} /\ ~is_running')
      /\ (clock' = "after" /\ late' = {}) => (cancel_cnt' = 0 /\ is_running')
      /\ mpc' \in {"merge", "done"} =>
           (Len(results') = thread_num /\ \A w \in Workers : set_cnt'[w] = 1) ]_vars

\* the controller has cancelled the Run and waits in future.get() for a
\* worker that is still inside Execute
C4_Witness ==
  /\ cancel_cnt = 1
  /\ ~is_running
  /\ mpc = "get"
  /\ ~futures[fut_i].ready
  /\ wpc[fut_i] = "exec"

\* C5: each promise is fulfilled once, with the sketch of its worker; the
\* controller collects thread_num_ sketches, one per worker; the merged
\* sketch counts every sample of every worker once (totals, exec_nums_ and
\* buckets).
C5_ExactlyOnceHandoff ==
  /\ \A w \in Threads : set_cnt[w] <= 1
  /\ \A w \in Workers :
       /\ futures[w].ready => (set_cnt[w] = 1 /\ HoldsSamples(futures[w].value, samples[w]))
       /\ w < Len(results) => (set_cnt[w] = 1 /\ HoldsSamples(results[w + 1], samples[w]))
  /\ mpc \in {"merge", "done"} => Len(results) = thread_num
  /\ mpc = "done" => HoldsSamples(agg, SamplesUpTo(thread_num))

\* Run has returned with the samples of several workers merged, one of the
\* workers stopped by the timeout
C5_Witness ==
  /\ mpc = "done"
  /\ thread_num >= 2
  /\ \A w \in Workers : completed[w] >= 1
  /\ cancel_cnt = 1
  /\ agg.exec_nums_[0] >= 2

\* C6: a worker starts an Execute only in the step in which it has read
\* is_running_ == true; its sketch holds one sample per completed Execute;
\* when it has left the loop every started Execute has its sample in the
\* sketch it hands over; once it has read is_running_ == false it starts no
\* Execute and adds no sample.
C6_NoPartialSample ==
  [][ \A w \in Threads :
        /\ started'[w] # started[w] =>
             (wpc[w] = "loop" /\ is_running /\ started'[w] = started[w] + 1)
        /\ wpc'[w] \in {"count", "spin", "loop", "exec", "handoff"} =>
             SampleCount(wsketch'[w]) = completed'[w]
        /\ wpc'[w] \in {"handoff", "dtor", "exited"} => started'[w] = completed'[w]
        /\ futures'[w].ready => SampleCount(futures'[w].value) = started'[w]
        /\ saw_stop[w] =>
             /\ started'[w] = started[w]
             /\ completed'[w] = completed[w]
             /\ wpc'[w] \in {"handoff", "dtor", "exited"} ]_vars

\* a worker that has recorded a sample hands its sketch over after it has
\* read is_running_ == false
C6_Witness ==
  \E w \in Workers :
    /\ saw_stop[w]
    /\ completed[w] >= 1
    /\ futures[w].ready
    /\ HasMore(iter[w])

\* C18: for the sketch a worker hands over and every kind of which it holds
\* no sample (the iterator was empty, or the Run was cancelled before an
\* operation of the kind completed), Quantile(k, q) is 0 for q = 0, 0.25,
\* 0.5, 0.75 and 1.
C18_EmptyQuantileZero ==
  \A w \in Workers :
    futures[w].ready =>
      \A k \in Kinds :
        futures[w].value.exec_nums_[k] = 0 =>
          \A n \in 0 .. 4 : Quantile(futures[w].value, k, n, 4) = 0

\* n calls of Target::Execute
ExecuteCalls(n) == [j \in 1 .. n |-> "Execute"]

\* C24: the order of the user-defined hooks.  A worker that has ended has
\* called SetUpForWorker, then PreProcess, then Execute some number of
\* times, then PostProcess, then TearDownForWorker, and nothing else; no
\* Execute of a worker comes before its PreProcess.
C24_HookOrder ==
  \A w \in Workers :
    /\ wpc[w] = "exited" =>
         calls[w] = << "SetUpForWorker", "PreProcess" >> \o ExecuteCalls(completed[w])
                      \o << "PostProcess", "TearDownForWorker" >>
    /\ \A j \in 1 .. Len(calls[w]) :
         calls[w][j] = "Execute" => \E i \in 1 .. (j - 1) : calls[w][i] = "PreProcess"

\* C25: the per-worker hooks run exactly once.  No worker calls
\* SetUpForWorker or TearDownForWorker twice, SetUpForWorker comes before
\* the first Execute and TearDownForWorker after the last one, and when Run
\* has returned, with or without a timeout, each of the thread_num_ workers
\* has called both, so that each hook was called thread_num_ times.
C25_HooksOnce ==
  /\ \A w \in Workers :
       /\ setup_calls[w] <= 1
       /\ teardown_calls[w] <= 1
       /\ started[w] > 0 => setup_calls[w] = 1
       /\ teardown_calls[w] = 1 => (completed[w] = started[w] /\ wpc[w] = "exited")
  /\ mpc = "done" =>
       /\ Cardinality({w \in Workers : setup_calls[w] = 1}) = thread_num
       /\ Cardinality({w \in Workers : teardown_calls[w] = 1}) = thread_num

\* C26: reproducible per-worker seeds.  The thread of worker i is given
\* thread_id i and the (i+1)-th value of the generator seeded with
\* rand_seed_, whatever the order in which the threads run; what a worker
\* is given depends on rand_seed_ and i alone, so two Runs with the same
\* seed and thread_num_ give every worker the same pair.
C26_SeedsReproducible ==
  \A w \in Threads :
    /\ (w \in Workers /\ wpc[w] # "unborn") => seeds[w] # NoSeed
    /\ seeds[w] # NoSeed =>
         seeds[w] = [thread_id |-> w, rand_seed |-> RandValue([seed |-> rand_seed, n |-> w + 1])]

\* the second of two workers was constructed before the first one, and was
\* given the second value
C26_Witness ==
  /\ thread_num = 2
  /\ wpc[1] = "spin"
  /\ wpc[0] = "ctor"
  /\ seeds[1] = [thread_id |-> 1, rand_seed |-> RandValue([seed |-> 1, n |-> 2])]

\* what a future would hold for a worker that ended abnormally
WorkerFault == [ fault |-> "WorkerFault" ]

\* C27: worker fault handling.  When the constructor of a Worker or an
\* Execute call has thrown, the process has not been terminated, the fault
\* is what the future of that worker holds until the controller takes it,
\* and the controller stops the run: is_running_ is false once it has
\* taken the fault.
C27_FaultSurfaced ==
  \A w \in Workers :
    wpc[w] = "threw" =>
      /\ mpc # "terminated"
      /\ futures[w].valid => (futures[w].ready /\ futures[w].value = WorkerFault)
      /\ ~futures[w].valid => ~is_running

(***************************************************************************)
(* Properties of ValidateStr2UInt, checked under ValidateSpec              *)
(***************************************************************************)
\* str is an unsigned integer an unsigned long holds: digits only, at least
\* one; every number of the model with fewer than ten digits fits
IsUnsignedInteger(str) ==
  /\ str # << >>
  /\ \A j \in 1 .. Len(str) : IsDigit(str[j])
  /\ Len(str) < 10

\* C31: seed-string validation.  A call of ValidateStr2UInt returns true
\* for the empty string and for every unsigned integer, and returns false,
\* without throwing, for every other string.
C31_SeedStringValidation ==
  lastOp.op = "validate" =>
    lastOp.outcome =
      IF lastOp.str = << >> \/ IsUnsignedInteger(lastOp.str) THEN "true" ELSE "false"

(***************************************************************************)
(* Further properties of Run and its workers, checked under Spec           *)
(***************************************************************************)
\* C32: bounded cancellation delay.  Once the controller has stored false
\* into is_running_, no worker starts another Target::Execute: the only
\* call that can still return is the one a worker had started before, and
\* the next step of a worker at its loop condition is out of the loop.
C32_BoundedCancelDelay ==
  [][ (cancel_cnt >= 1 /\ ~is_running) =>
        \A w \in Workers :
          /\ started'[w] = started[w]
          /\ completed'[w] <= started[w]
          /\ wpc[w] = "loop" => wpc'[w] \in {"loop", "handoff"} ]_vars

\* after the store a worker has finished the call it was in and has left
\* the loop with operations remaining
C32_Witness ==
  /\ cancel_cnt = 1
  /\ \E w \in Workers :
       /\ wpc[w] = "handoff"
       /\ saw_stop[w]
       /\ completed[w] = 1
       /\ w \in late

\* C33: per-worker FIFO.  The operations a worker has executed are the
\* first ones of its iterator, in order, each once: the iterator stands at
\* the number of completed calls, the j-th sample is that of the j-th
\* operation, at most one call is under way, and while operation i + 1 is
\* executed the sketch already holds the samples of the i operations before.
C33_PerWorkerFifo ==
  \A w \in Workers :
    wpc[w] \in {"loop", "exec", "handoff", "dtor", "exited"} =>
      /\ iter[w].cnt_ = completed[w]
      /\ completed[w] <= iter[w].len
      /\ started[w] = completed[w] + (IF wpc[w] = "exec" THEN 1 ELSE 0)
      /\ Len(samples[w]) = completed[w]
      /\ \A j \in 1 .. Len(samples[w]) :
           samples[w][j] = << (j - 1) % 2, ExecuteReturn(w, j - 1), ElapsedNano(w, j - 1) >>
      /\ wpc[w] \in {"loop", "exec"} =>
           (SampleCount(wsketch[w]) = completed[w] /\ HoldsSamples(wsketch[w], samples[w]))

\* a worker executes its second operation with the sample of the first in
\* its sketch
C33_Witness ==
  \E w \in Workers :
    /\ wpc[w] = "exec"
    /\ started[w] = 2
    /\ SampleCount(wsketch[w]) = 1

\* C34: deadline ordering in Run.  The deadline wake_up is taken only when
\* worker_cnt_ has reached thread_num_, and it has been taken whenever
\* ready_for_benchmarking_ is true.
C34_DeadlineOrdering ==
  /\ clock # "unset" => worker_cnt = thread_num
  /\ ready => clock # "unset"

\* the workers that have counted themselves in worker_cnt_
Counted == {w \in Workers : wpc[w] \notin {"unborn", "ctor", "count"}}

\* C35: flag ownership.  A step that changes is_running_ or
\* ready_for_benchmarking_ is a step of the controller; worker_cnt_ is set
\* to zero by the controller only and raised by one by a worker exactly when
\* that worker has been constructed, once per worker, so that it never
\* exceeds thread_num_ and equals the number of workers that are
\* constructed and counted.
C35_FlagOwnership ==
  [][ /\ (is_running' # is_running \/ ready' # ready) => (mpc' # mpc /\ wpc' = wpc)
      /\ worker_cnt' # worker_cnt =>
           \/ mpc = "start" /\ mpc' # mpc /\ wpc' = wpc /\ worker_cnt' = 0
           \/ /\ mpc' = mpc
              /\ worker_cnt' = worker_cnt + 1
              /\ \E w \in Workers :
                   /\ wpc[w] = "count"
                   /\ wpc' = [wpc EXCEPT ![w] = "spin"]
      /\ worker_cnt' <= thread_num
      /\ worker_cnt' = Cardinality(Counted') ]_vars

\* every flag has been written in a run of two workers that was stopped
C35_Witness ==
  /\ thread_num = 2
  /\ worker_cnt = 2
  /\ ready
  /\ ~is_running
  /\ cancel_cnt = 1
  /\ mpc = "done"

(***************************************************************************)
(* Properties of a second Run on the same Benchmarker, checked under       *)
(* RepeatSpec                                                              *)
(***************************************************************************)
\* C36: every Run opens with is_running_ = true, ready = false and
\* worker_cnt_ = 0, whatever the earlier Run left behind; in every Run no
\* worker measures before all thread_num_ workers of that Run are counted
\* and the flag is set, the counter counts the workers of that Run only, a
\* worker leaves its loop only when its iterator is exhausted or that Run
\* has timed out, and the merged sketch holds the samples of the workers of
\* that Run and nothing else, also while workers of the earlier Run are
\* still ending.
C36_RunRepeatable ==
  /\ (mpc = "spawn" /\ spawn_i = 0) => (is_running /\ ~ready /\ worker_cnt = 0)
  /\ \A w \in Threads :
       started[w] > 0 =>
         (ready /\ worker_cnt = thread_num /\ \A v \in Workers : Constructed(v))
  /\ mpc # "start" => worker_cnt = Cardinality(Counted)
  /\ \A w \in Workers :
       wpc[w] \in {"handoff", "dtor", "exited"} => (~HasMore(iter[w]) \/ cancel_cnt >= 1)
  /\ mpc = "done" =>
       (Len(results) = thread_num /\ HoldsSamples(agg, SamplesUpTo(thread_num)))

\* the second Run has returned after the first one ended by its timeout,
\* every worker of the second Run has measured, and a worker of the first
\* Run has still not ended
C36_Witness ==
  /\ runs = << "timeout" >>
  /\ mpc = "done"
  /\ thread_num >= 2
  /\ zombies >= 1
  /\ \A w \in Workers : completed[w] >= 1

(***************************************************************************)
(* Properties of the runner with the condition variable, checked under     *)
(* CvSpec                                                                  *)
(***************************************************************************)
\* the positions of the controller after cond_.notify_all()
CvNotified == mpc \in {"wait_until", "check", "get", "merge", "done"}

\* C37: the flag is set only when the prepare promise of every worker has
\* been fulfilled; no worker is in or past its measurement loop before the
\* flag is set; once notify_all has been called no worker is blocked in the
\* wait, so no wake-up is lost; and with fair scheduling Run returns, which
\* needs every worker to have left the wait and ended.
C37_CvStartAndReturn ==
  /\ [](ready => \A w \in Workers : prepare_futures[w])
  /\ [](\A w \in Threads :
          wpc[w] \in {"loop", "exec", "handoff", "dtor", "exited"} =>
            (ready /\ \A v \in Workers : prepare_futures[v]))
  /\ [](CvNotified => cond = {})
  /\ <>(mpc = "done" /\ \A w \in Workers : wpc[w] = "exited")

\* the controller has set the flag under the mutex and is about to notify,
\* while every one of several workers is blocked in the wait
C37_Witness ==
  /\ mpc = "notify"
  /\ thread_num >= 2
  /\ ready
  /\ cond = Workers

(***************************************************************************)
(* Properties of the split of the work, checked under SplitSpec            *)
(***************************************************************************)
\* the sum of the first n counts, with the carries out of 64 bits counted
RECURSIVE SumCounts(_, _)
SumCounts(counts, n) ==
  IF n = 0 THEN [value |-> ToSize(0), carry |-> 0]
  ELSE LET rest == SumCounts(counts, n - 1)
           s == AddCarry(rest.value, counts[n])
       IN [value |-> s.value, carry |-> rest.carry + s.carry]

\* two counts differ by at most 1
DiffAtMostOne(x, y) ==
  \/ x = y
  \/ AddCarry(x, ToSize(1)) = [value |-> y, carry |-> 0]
  \/ AddCarry(y, ToSize(1)) = [value |-> x, carry |-> 0]

\* C40: in both schemes the counts of the workers sum to total_exec_num_,
\* for every total and every number of threads, and in the first scheme
\* two counts differ by at most 1.
C40_SplitSumsToTotal ==
  lastOp.op = "split" =>
    /\ SumCounts(lastOp.counts, lastOp.threads) = [value |-> lastOp.total, carry |-> 0]
    /\ lastOp.scheme = "floor" =>
         \A i, j \in 1 .. lastOp.threads : DiffAtMostOne(lastOp.counts[i], lastOp.counts[j])

(***************************************************************************)
(* Properties of the runner with s_mtx_, checked under SmSpec              *)
(***************************************************************************)
\* C38: for every scheduling of the worker threads Run returns in the end,
\* with the results of all thread_num_ workers.
C38_RunReturns == <>(mpc = "done" /\ Len(results) = thread_num)

(***************************************************************************)
(* Properties of the runner with mutex_1st_ and mutex_2nd_, checked under  *)
(* TmSpec                                                                  *)
(***************************************************************************)
\* the worker of thread w has been created
TmCreated(w) == wpc[w] \notin {"unborn", "ctor", "make"}

\* the worker of thread w has left its measurement
TmMeasured(w) == wpc[w] \in {"measured", "handoff", "exited"}

\* C39: in every schedule the controller has released mutex_1st_ for the
\* first time only when all thread_num_ workers have been created, no
\* worker executes an operation before every worker has been created, and
\* the controller leaves its second block only when every worker has left
\* its measurement.
C39_TwoMutexBarrier ==
  /\ mpc \notin {"start", "spawn", "sleep", "slept", "unlock"} =>
       \A w \in Workers : TmCreated(w)
  /\ \A w \in Threads : started[w] > 0 => \A v \in Workers : TmCreated(v)
  /\ mpc \in {"wait_until", "merge", "done"} => \A w \in Workers : TmMeasured(w)

====
